---- MODULE Spec2Model ----
(***************************************************************************)
(* Model of the web-test-agent runner (src/src/runner.ts) together with    *)
(* the test schema it loads (src/unnamed/part_000).                        *)
(*                                                                         *)
(* Strings that the runner only stores or compares for equality are TLA+   *)
(* strings.  Strings that are matched against allowlist patterns (URLs,    *)
(* console texts, patterns) are sequences of one-character strings, so     *)
(* that regular-expression search and substring search are computed.       *)
(* An optional field of an object is a field that may be missing from the  *)
(* record's DOMAIN; Opt(obj, f) is the set holding its value, or {} when   *)
(* the field is undefined.                                                 *)
(***************************************************************************)
EXTENDS Integers, Sequences, FiniteSets, TLC

VARIABLES
    argv,                    \* parsed command line (runner.ts:10-21)
    test,                    \* the parsed test definition (runner.ts:34)
    pc,                      \* position of run() / of the process
    baseUrl,                 \* Opt value: {} or {url}        (runner.ts:35)
    tolerate,                \* (test as any).tolerate ?? {}  (runner.ts:36)
    browser,                 \* "none" | "open" | "closed"
    listeners,               \* page events that have a handler installed
    consoleErrors,           \* runner.ts:48
    pageErrors,              \* runner.ts:49
    requestFailures,         \* runner.ts:50
    httpErrors,              \* runner.ts:51
    stepErrors,              \* runner.ts:52
    arrivals,                \* history: the events recorded, in the order their handlers ran
    i,                       \* loop counter of runner.ts:142
    sub,                     \* number of page calls of the current step that have resolved
    err,                     \* Opt value: the error caught at runner.ts:134
    content,                 \* Opt value: result of page.textContent (runner.ts:117)
    calls,                   \* page calls issued so far: [pos: position in test.steps (0-based),
                             \*   op, st: pending/resolved/rejected, arg: Opt value, the URL of a goto]
    filteredHttpErrors,      \* runner.ts:162
    filteredConsoleErrors,   \* runner.ts:168
    filteredPageErrors,      \* runner.ts:170
    filteredRequestFailures, \* runner.ts:171
    pageOk, consoleOk, httpOk, reqOk,   \* runner.ts:173-176
    success,                 \* runner.ts:179
    summary,                 \* Opt value: the summary object of runner.ts:181-199
    files,                   \* report files written (runner.ts:203-210)
    exitCode,                \* Opt value: exit status of the process
    sessionId,               \* builder UI: useState sessionId (WebTestBuilderUI.tsx:60)
    subscribedId,            \* builder UI: the sessionId the installed onMsg closed over
    builderTest,             \* builder UI: useState test (WebTestBuilderUI.tsx:61-68)
    lastEvent,               \* builder UI: useState lastEvent (WebTestBuilderUI.tsx:71)
    lastMsg                  \* history: the session id of the last message onMsg handled, if a recorder's

vars == << argv, test, pc, baseUrl, tolerate, browser, listeners, arrivals,
           consoleErrors, pageErrors, requestFailures, httpErrors, stepErrors,
           i, sub, err, content, calls,
           filteredHttpErrors, filteredConsoleErrors, filteredPageErrors,
           filteredRequestFailures, pageOk, consoleOk, httpOk, reqOk, success,
           summary, files, exitCode,
           sessionId, subscribedId, builderTest, lastEvent, lastMsg >>

----------------------------------------------------------------------------
(* Generic helpers *)

\* The value of an optional field: {} when undefined, {value} otherwise.
Opt(obj, f) == IF f \in DOMAIN obj THEN {obj[f]} ELSE {}

\* The empty object {}.
EmptyObj == <<>>

\* JavaScript truthiness of an optional boolean (undefined and false are falsy).
Truthy(o) == \E v \in o : v = TRUE

Range(s) == { s[k] : k \in DOMAIN s }

\* a is a subsequence of b (same relative order, nothing added).
RECURSIVE IsSubseq(_, _)
IsSubseq(a, b) ==
    IF a = <<>> THEN TRUE
    ELSE IF b = <<>> THEN FALSE
    ELSE IF Head(a) = Head(b) THEN IsSubseq(Tail(a), Tail(b))
         ELSE IsSubseq(a, Tail(b))

\* All sequences over S of length at most n.
RECURSIVE SeqsUpTo(_, _)
SeqsUpTo(S, n) ==
    IF n = 0 THEN { <<>> }
    ELSE LET shorter == SeqsUpTo(S, n - 1)
         IN  shorter \cup { Append(s, x) : s \in { t \in shorter : Len(t) = n - 1 }, x \in S }

----------------------------------------------------------------------------
(* Allowlist matching, runner.ts:150-160 *)

\* Case folding done by the "i" flag, on the letters the model's texts use.
Lower(c) ==
    CASE c = "A" -> "a"
      [] c = "P" -> "p"
      [] c = "I" -> "i"
      [] OTHER   -> c

\* new RegExp(p, "i") throws a SyntaxError for a pattern that opens a character
\* class and never closes it.  The model's patterns are written with letters,
\* digits, "/", "." and "[", so that is the only way a pattern is malformed.
RegExpCompiles(p) == \A k \in DOMAIN p : p[k] # "["

\* re.test(text) for a compiled pattern of literals and "." : an unanchored,
\* case-insensitive search.
RegExpTest(p, text) ==
    \E off \in 0 .. (Len(text) - Len(p)) :
        \A j \in 1 .. Len(p) :
            \/ p[j] = "."
            \/ Lower(p[j]) = Lower(text[off + j])

\* String.prototype.includes: a case-sensitive literal substring search.
Includes(text, p) ==
    \E off \in 0 .. (Len(text) - Len(p)) :
        \A j \in 1 .. Len(p) : p[j] = text[off + j]

\* The catch clause answering false in place of the substring search.
PatternMatchesNoFallback(p, text) == RegExpCompiles(p) /\ RegExpTest(p, text)

\* The callback of patterns.some(...), runner.ts:152-159.
PatternMatches(p, text) ==
    IF RegExpCompiles(p) THEN RegExpTest(p, text) ELSE Includes(text, p)

\* patterns.every(...) in place of patterns.some(...).
MatchesEveryPattern(text, patterns) ==
    IF patterns = {} THEN FALSE
    ELSE LET ps == CHOOSE q \in patterns : TRUE
         IN  IF Len(ps) = 0 THEN FALSE
             ELSE \A k \in 1 .. Len(ps) : PatternMatches(ps[k], text)

\* matchesAnyPattern(text, patterns); patterns is an Opt value.
MatchesAnyPattern(text, patterns) ==
    IF patterns = {} THEN FALSE
    ELSE LET ps == CHOOSE q \in patterns : TRUE
         IN  IF Len(ps) = 0 THEN FALSE
             ELSE \E k \in 1 .. Len(ps) : PatternMatches(ps[k], text)

----------------------------------------------------------------------------
(* Tolerance filters and verdict, runner.ts:162-179 *)

\* allowByStatus, runner.ts:163
AllowByStatus(h, tol) ==
    \E l \in Opt(tol, "httpStatusAllowlist") : h.status \in Range(l)

\* allowByUrl, runner.ts:164
AllowByUrl(h, tol) == MatchesAnyPattern(h.url, Opt(tol, "httpUrlAllowlist"))

\* The HTTP toggle emptying the effective log.
FilterHttpErrorsHonoursToggle(raw, tol) ==
    LET keep(h) == ~(AllowByStatus(h, tol) \/ AllowByUrl(h, tol))
    IN  IF Truthy(Opt(tol, "httpErrors")) THEN <<>> ELSE SelectSeq(raw, keep)

\* Suppression that needs both the status and the URL to be allowed.
FilterHttpErrorsNeedsBoth(raw, tol) ==
    LET keep(h) == ~(AllowByStatus(h, tol) /\ AllowByUrl(h, tol))
    IN  SelectSeq(raw, keep)

\* runner.ts:162-166
FilterHttpErrors(raw, tol) ==
    LET keep(h) == ~(AllowByStatus(h, tol) \/ AllowByUrl(h, tol))
    IN  SelectSeq(raw, keep)

\* The console filter also consulting the URL allowlist of the HTTP category.
FilterConsoleErrorsUsesUrlList(raw, tol) ==
    LET keep(c) == ~( MatchesAnyPattern(c.text, Opt(tol, "consolePatternAllowlist"))
                      \/ MatchesAnyPattern(c.text, Opt(tol, "httpUrlAllowlist")) )
    IN  SelectSeq(raw, keep)

\* The kept entries listed newest first.
FilterConsoleErrorsNewestFirst(raw, tol) ==
    LET keep(c) == ~MatchesAnyPattern(c.text, Opt(tol, "consolePatternAllowlist"))
        kept == SelectSeq(raw, keep)
    IN  [ k \in 1 .. Len(kept) |-> kept[Len(kept) + 1 - k] ]

\* runner.ts:168
FilterConsoleErrors(raw, tol) ==
    LET keep(c) == ~MatchesAnyPattern(c.text, Opt(tol, "consolePatternAllowlist"))
    IN  SelectSeq(raw, keep)

\* pageErrors.slice(1)
FilterPageErrorsSliceOne(raw) == IF raw = <<>> THEN raw ELSE Tail(raw)

\* runner.ts:170  pageErrors.slice()
FilterPageErrors(raw) == raw

\* runner.ts:171  requestFailures.slice()
FilterRequestFailures(raw) == raw

\* The page flag without the toggle.
PageOkWithoutToggle(av, tol, filtered) ==
    av.ignorePageErrors \/ Len(filtered) = 0

\* runner.ts:173
PageOk(av, tol, filtered) ==
    av.ignorePageErrors \/ Truthy(Opt(tol, "pageErrors")) \/ Len(filtered) = 0

\* runner.ts:174
ConsoleOk(av, tol, filtered) ==
    av.ignoreConsoleErrors \/ Truthy(Opt(tol, "consoleErrors")) \/ Len(filtered) = 0

\* The toggle honoured only when nothing is left after filtering.
HttpOkToggleNeedsEmpty(av, tol, filtered) ==
    av.ignoreHttpErrors \/ (Truthy(Opt(tol, "httpErrors")) /\ Len(filtered) = 0)

\* runner.ts:175
HttpOk(av, tol, filtered) ==
    av.ignoreHttpErrors \/ Truthy(Opt(tol, "httpErrors")) \/ Len(filtered) = 0

\* The request-failure flag also set by the toggle of the HTTP category.
ReqOkHonoursHttpToggle(av, tol, filtered) ==
    \/ av.ignoreRequestFailures
    \/ Truthy(Opt(tol, "requestFailures"))
    \/ Truthy(Opt(tol, "httpErrors"))
    \/ Len(filtered) = 0

\* runner.ts:176
ReqOk(av, tol, filtered) ==
    av.ignoreRequestFailures \/ Truthy(Opt(tol, "requestFailures")) \/ Len(filtered) = 0

\* Success without the request-failure flag.
SuccessIgnoresRequests(errs, pOk, cOk, hOk, rOk) ==
    Len(errs) = 0 /\ pOk /\ cOk /\ hOk

\* runner.ts:179
Success(errs, pOk, cOk, hOk, rOk) ==
    Len(errs) = 0 /\ pOk /\ cOk /\ hOk /\ rOk

----------------------------------------------------------------------------
(* Step execution, runner.ts:79-144 *)

\* JavaScript falsiness of an optional string: undefined or "".
Falsy(o) == o = {} \/ o = { "" }

\* absUrl(p), runner.ts:79-82, as an Opt value.  The model's paths are
\* relative, so new URL(p, baseUrl) is the base followed by the path.
AbsUrl(p, base) ==
    IF Falsy(p) THEN base
    ELSE { b \o q : b \in base, q \in p }

\* target of a navigate step, runner.ts:88:  step.url ?? absUrl(step.path)
NavigateTarget(step, base) ==
    IF Opt(step, "url") # {} THEN Opt(step, "url")
    ELSE AbsUrl(Opt(step, "path"), base)

\* Enter pressed after every type step, whatever pressEnter says.
PageCallsAlwaysPress(step) ==
    CASE step.action = "navigate"        -> << "goto" >>
      [] step.action = "click"           -> << "click" >>
      [] step.action = "type"            -> << "fill", "type", "press" >>
      [] step.action = "fill"            -> << "fill" >>
      [] step.action = "waitForSelector" -> << "waitForSelector" >>
      [] step.action = "expectVisible"   -> << "waitForSelector" >>
      [] step.action = "expectText"      -> << "waitForSelector", "textContent" >>
      [] step.action = "wait"            -> << "waitForTimeout" >>
      [] step.action = "screenshot"      -> << "screenshot" >>

\* The page calls a step awaits, in order (the cases of runner.ts:86-133).
PageCalls(step) ==
    CASE step.action = "navigate"        -> << "goto" >>
      [] step.action = "click"           -> << "click" >>
      [] step.action = "type"            ->
            IF Truthy(Opt(step, "pressEnter"))
            THEN << "fill", "type", "press" >>
            ELSE << "fill", "type" >>
      [] step.action = "fill"            -> << "fill" >>
      [] step.action = "waitForSelector" -> << "waitForSelector" >>
      [] step.action = "expectVisible"   -> << "waitForSelector" >>
      [] step.action = "expectText"      -> << "waitForSelector", "textContent" >>
      [] step.action = "wait"            -> << "waitForTimeout" >>
      [] step.action = "screenshot"      -> << "screenshot" >>

\* The step doStep is working on: test.steps[i] of runner.ts:143, 1-based here.
CurrentStep == test.steps[i + 1]

\* The loop counter passed as it is.
StepNumberZeroBased(k) == k

\* The first argument of doStep at runner.ts:143.
StepNumber(k) == k + 1

\* The record pushed at runner.ts:137.
StepError(n, step, message) ==
    [ index |-> n, step |-> step, message |-> message,
      screenshot |-> << "error-step", n, "" >> ]

----------------------------------------------------------------------------
(* The run, runner.ts:31-213 and 251-254 *)

inputs   == << argv, test >>
rawLogs  == << consoleErrors, pageErrors, requestFailures, httpErrors >>
evalVars == << filteredHttpErrors, filteredConsoleErrors, filteredPageErrors,
               filteredRequestFailures, pageOk, consoleOk, httpOk, reqOk, success,
               summary >>
stepVars == << i, sub, err, content, calls, stepErrors >>
uiVars   == << sessionId, subscribedId, builderTest, lastEvent, lastMsg >>

PageEvents == { "console", "pageerror", "requestfailed", "response" }

\* Points of run() at which it is suspended on a browser operation, so that
\* an event handler can run.
AwaitPoints == { "await", "awaitShot", "close" }

\* runner.ts:32-40.  argv.baseUrl ?? test.baseUrl ?? undefined, then the
\* pre-flight check that throws when the result is falsy.
ResolveBaseUrl(av, t) ==
    IF Opt(av, "baseUrl") # {} THEN Opt(av, "baseUrl") ELSE Opt(t, "baseUrl")

ResolveTolerate(t) ==
    IF Opt(t, "tolerate") # {} THEN CHOOSE x \in Opt(t, "tolerate") : TRUE ELSE EmptyObj

\* The browser launched before the base URL is looked at.
PreflightAfterLaunch ==
    /\ pc = "start"
    /\ baseUrl' = ResolveBaseUrl(argv, test)
    /\ tolerate' = ResolveTolerate(test)
    /\ browser' = "open"
    /\ pc' = IF Falsy(ResolveBaseUrl(argv, test)) THEN "rejected" ELSE "newPage"
    /\ UNCHANGED << inputs, uiVars, arrivals, listeners, rawLogs, stepVars, evalVars, files, exitCode >>


Preflight ==
    /\ pc = "start"
    /\ baseUrl' = ResolveBaseUrl(argv, test)
    /\ tolerate' = ResolveTolerate(test)
    /\ pc' = IF Falsy(ResolveBaseUrl(argv, test)) THEN "rejected" ELSE "launch"
    /\ UNCHANGED << inputs, uiVars, arrivals, browser, listeners, rawLogs, stepVars, evalVars,
                    files, exitCode >>

\* runner.ts:45, 54: the output directory is made and chromium.launch resolves.
Launch ==
    /\ pc = "launch"
    /\ browser' = "open"
    /\ pc' = "newPage"
    /\ UNCHANGED << inputs, uiVars, arrivals, baseUrl, tolerate, listeners, rawLogs, stepVars,
                    evalVars, files, exitCode >>

\* runner.ts:45, 54: mkdir or chromium.launch rejects; run() rejects without
\* a browser.
LaunchFails ==
    /\ pc = "launch"
    /\ pc' = "rejected"
    /\ UNCHANGED << inputs, uiVars, arrivals, baseUrl, tolerate, browser, listeners, rawLogs,
                    stepVars, evalVars, files, exitCode >>

\* runner.ts:55-56: browser.newContext() and context.newPage() resolve.
NewPage ==
    /\ pc = "newPage"
    /\ pc' = "subscribe"
    /\ UNCHANGED << inputs, uiVars, arrivals, baseUrl, tolerate, browser, listeners, rawLogs,
                    stepVars, evalVars, files, exitCode >>

\* runner.ts:55-56: browser.newContext() or context.newPage() rejects; run()
\* rejects, and nothing between the rejected await and the end of run()
\* is executed (runner.ts:147 included).
NewPageFails ==
    /\ pc = "newPage"
    /\ pc' = "rejected"
    /\ UNCHANGED << inputs, uiVars, arrivals, baseUrl, tolerate, browser, listeners, rawLogs,
                    stepVars, evalVars, files, exitCode >>

\* The subscription to "response" left out.
SubscribeMissesResponse ==
    /\ pc = "subscribe"
    /\ listeners' = PageEvents \ { "response" }
    /\ pc' = "loop"
    /\ UNCHANGED << inputs, uiVars, arrivals, baseUrl, tolerate, browser, rawLogs, stepVars,
                    evalVars, files, exitCode >>

\* runner.ts:58-77: the four page.on(...) calls.
Subscribe ==
    /\ pc = "subscribe"
    /\ listeners' = PageEvents
    /\ pc' = "loop"
    /\ UNCHANGED << inputs, uiVars, arrivals, baseUrl, tolerate, browser, rawLogs, stepVars,
                    evalVars, files, exitCode >>

\* runner.ts:142: the loop test; entering doStep, or leaving the loop and
\* calling browser.close() (runner.ts:147).
LoopTest ==
    /\ pc = "loop"
    /\ IF i < Len(test.steps)
       THEN pc' = "doStep" /\ sub' = 0
       ELSE pc' = "close" /\ sub' = sub
    /\ UNCHANGED << inputs, uiVars, arrivals, baseUrl, tolerate, browser, listeners, rawLogs,
                    i, err, content, calls, stepErrors, evalVars, files, exitCode >>

\* The message of the error a rejected page call throws.
CallError(op) == op \o ": Timeout exceeded"

\* Files of the output directory are <<kind, step number, name>>.
\* The file of the failure screenshot, runner.ts:135.
ErrorShot(n) == << "error-step", n, "" >>

\* The file a screenshot step writes, runner.ts:128-129.
ShotName(n, step) ==
    IF Falsy(Opt(step, "name"))
    THEN << "shot", n, "screenshot" >>
    ELSE << "shot", n, CHOOSE x \in Opt(step, "name") : TRUE >>

\* runner.ts:118: !content || !content.includes(step.text)
TextMissing(c, text) ==
    \/ c = {}
    \/ \E x \in c : Len(x) = 0 \/ ~Includes(x, text)

\* The promise of the page call issued last settles.
Settle(cs, st) == [ cs EXCEPT ![Len(cs)].st = st ]

\* doStep reaches the next await of the current step and issues the page call
\* (runner.ts:90-130).
DoStepIssue ==
    /\ pc = "doStep"
    /\ sub < Len(PageCalls(CurrentStep))
    /\ CurrentStep.action = "navigate" => ~Falsy(NavigateTarget(CurrentStep, baseUrl))
    /\ calls' = Append(calls, [ pos |-> i, op |-> PageCalls(CurrentStep)[sub + 1],
                                st |-> "pending",
                                arg |-> IF CurrentStep.action = "navigate"
                                        THEN NavigateTarget(CurrentStep, baseUrl)
                                        ELSE {} ])
    /\ pc' = "await"
    /\ UNCHANGED << inputs, uiVars, arrivals, baseUrl, tolerate, browser, listeners, rawLogs,
                    i, sub, err, content, stepErrors, evalVars, files, exitCode >>

\* runner.ts:89: a navigate step without a target throws before any page call.
NavigateNoTarget ==
    /\ pc = "doStep"
    /\ sub = 0
    /\ CurrentStep.action = "navigate"
    /\ Falsy(NavigateTarget(CurrentStep, baseUrl))
    /\ err' = { "navigate requires url or path" }
    /\ pc' = "catch"
    /\ UNCHANGED << inputs, uiVars, arrivals, baseUrl, tolerate, browser, listeners, rawLogs,
                    i, sub, content, calls, stepErrors, evalVars, files, exitCode >>

\* The awaited page call resolves; textContent resolves with the element's
\* text or null, an explicit screenshot leaves its file.
CallResolves ==
    /\ pc = "await"
    /\ LET op == calls[Len(calls)].op IN
        /\ IF op = "textContent"
           THEN content' \in { {}, { <<>> }, { << "o", "k" >> } }
           ELSE content' = content
        /\ files' = IF op = "screenshot"
                    THEN files \cup { ShotName(StepNumber(i), CurrentStep) }
                    ELSE files
    /\ calls' = Settle(calls, "resolved")
    /\ sub' = sub + 1
    /\ pc' = "doStep"
    /\ UNCHANGED << inputs, uiVars, arrivals, baseUrl, tolerate, browser, listeners, rawLogs,
                    i, err, stepErrors, evalVars, exitCode >>

\* The awaited page call rejects: control goes to the catch clause, runner.ts:134.
CallRejects ==
    /\ pc = "await"
    /\ err' = { CallError(calls[Len(calls)].op) }
    /\ calls' = Settle(calls, "rejected")
    /\ pc' = "catch"
    /\ UNCHANGED << inputs, uiVars, arrivals, baseUrl, tolerate, browser, listeners, rawLogs,
                    i, sub, content, stepErrors, evalVars, files, exitCode >>

\* runner.ts:118-120: the text read is not the expected one.
ExpectTextMismatch ==
    /\ pc = "doStep"
    /\ sub = Len(PageCalls(CurrentStep))
    /\ CurrentStep.action = "expectText"
    /\ TextMissing(content, CurrentStep.text)
    /\ err' = { "Expected text" }
    /\ pc' = "catch"
    /\ UNCHANGED << inputs, uiVars, arrivals, baseUrl, tolerate, browser, listeners, rawLogs,
                    i, sub, content, calls, stepErrors, evalVars, files, exitCode >>

\* The case's break: doStep returns without an error and the loop goes on.
StepBreak ==
    /\ pc = "doStep"
    /\ sub = Len(PageCalls(CurrentStep))
    /\ CurrentStep.action = "expectText" => ~TextMissing(content, CurrentStep.text)
    /\ i' = i + 1
    /\ content' = {}
    /\ pc' = "loop"
    /\ UNCHANGED << inputs, uiVars, arrivals, baseUrl, tolerate, browser, listeners, rawLogs,
                    sub, err, calls, stepErrors, evalVars, files, exitCode >>

\* The failure screenshot started without await: the step error is pushed and
\* doStep returns while the screenshot is still being taken.
CatchScreenshotNotAwaited ==
    /\ pc = "catch"
    /\ calls' = Append(calls, [ pos |-> i, op |-> "errorScreenshot", st |-> "pending",
                                arg |-> {} ])
    /\ stepErrors' = Append(stepErrors,
                            StepError(StepNumber(i), CurrentStep, CHOOSE m \in err : TRUE))
    /\ err' = {}
    /\ content' = {}
    /\ i' = i + 1
    /\ pc' = "loop"
    /\ UNCHANGED << inputs, uiVars, arrivals, baseUrl, tolerate, browser, listeners, rawLogs,
                    sub, evalVars, files, exitCode >>

\* runner.ts:135-136: the failure screenshot is requested.
CatchScreenshot ==
    /\ pc = "catch"
    /\ calls' = Append(calls, [ pos |-> i, op |-> "errorScreenshot", st |-> "pending",
                                arg |-> {} ])
    /\ pc' = "awaitShot"
    /\ UNCHANGED << inputs, uiVars, arrivals, baseUrl, tolerate, browser, listeners, rawLogs,
                    i, sub, err, content, stepErrors, evalVars, files, exitCode >>

\* The error of a failed failure screenshot recorded as the step's message.
ShotSettlesMasksError ==
    /\ pc = "awaitShot"
    /\ \E captured \in BOOLEAN :
          /\ files' = IF captured THEN files \cup { ErrorShot(StepNumber(i)) } ELSE files
          /\ calls' = Settle(calls, IF captured THEN "resolved" ELSE "rejected")
          /\ stepErrors' = Append(stepErrors,
                StepError(StepNumber(i), CurrentStep,
                          IF captured THEN CHOOSE m \in err : TRUE
                          ELSE CallError("errorScreenshot")))
    /\ err' = {}
    /\ content' = {}
    /\ i' = i + 1
    /\ pc' = "loop"
    /\ UNCHANGED << inputs, uiVars, arrivals, baseUrl, tolerate, browser, listeners, rawLogs,
                    sub, evalVars, exitCode >>

\* The catch clause leaving the loop after the failure is recorded.
ShotSettlesAborts ==
    /\ pc = "awaitShot"
    /\ \E captured \in BOOLEAN :
          /\ files' = IF captured THEN files \cup { ErrorShot(StepNumber(i)) } ELSE files
          /\ calls' = Settle(calls, IF captured THEN "resolved" ELSE "rejected")
    /\ stepErrors' = Append(stepErrors,
                            StepError(StepNumber(i), CurrentStep, CHOOSE m \in err : TRUE))
    /\ err' = {}
    /\ content' = {}
    /\ i' = Len(test.steps)
    /\ pc' = "loop"
    /\ UNCHANGED << inputs, uiVars, arrivals, baseUrl, tolerate, browser, listeners, rawLogs,
                    sub, evalVars, exitCode >>

\* The step error pushed inside the try of runner.ts:136, so that a failed
\* screenshot loses it.
ShotSettlesPushInTry ==
    /\ pc = "awaitShot"
    /\ \E captured \in BOOLEAN :
          /\ files' = IF captured THEN files \cup { ErrorShot(StepNumber(i)) } ELSE files
          /\ calls' = Settle(calls, IF captured THEN "resolved" ELSE "rejected")
          /\ stepErrors' = IF captured
                           THEN Append(stepErrors,
                                       StepError(StepNumber(i), CurrentStep, CHOOSE m \in err : TRUE))
                           ELSE stepErrors
    /\ err' = {}
    /\ content' = {}
    /\ i' = i + 1
    /\ pc' = "loop"
    /\ UNCHANGED << inputs, uiVars, arrivals, baseUrl, tolerate, browser, listeners, rawLogs,
                    sub, evalVars, exitCode >>

\* The screenshot path recorded only when the capture succeeded.
ShotSettlesPathIfCaptured ==
    /\ pc = "awaitShot"
    /\ \E captured \in BOOLEAN :
          /\ files' = IF captured THEN files \cup { ErrorShot(StepNumber(i)) } ELSE files
          /\ calls' = Settle(calls, IF captured THEN "resolved" ELSE "rejected")
          /\ stepErrors' = Append(stepErrors,
                IF captured
                THEN StepError(StepNumber(i), CurrentStep, CHOOSE m \in err : TRUE)
                ELSE [ index |-> StepNumber(i), step |-> CurrentStep,
                       message |-> CHOOSE m \in err : TRUE ])
    /\ err' = {}
    /\ content' = {}
    /\ i' = i + 1
    /\ pc' = "loop"
    /\ UNCHANGED << inputs, uiVars, arrivals, baseUrl, tolerate, browser, listeners, rawLogs,
                    sub, evalVars, exitCode >>

\* runner.ts:136-138: the failure screenshot settles (a rejection is swallowed
\* by the empty catch), the step error is pushed, doStep returns.
ShotSettles ==
    /\ pc = "awaitShot"
    /\ \E captured \in BOOLEAN :
          /\ files' = IF captured THEN files \cup { ErrorShot(StepNumber(i)) } ELSE files
          /\ calls' = Settle(calls, IF captured THEN "resolved" ELSE "rejected")
    /\ stepErrors' = Append(stepErrors,
                            StepError(StepNumber(i), CurrentStep, CHOOSE m \in err : TRUE))
    /\ err' = {}
    /\ content' = {}
    /\ i' = i + 1
    /\ pc' = "loop"
    /\ UNCHANGED << inputs, uiVars, arrivals, baseUrl, tolerate, browser, listeners, rawLogs,
                    sub, evalVars, exitCode >>

\* runner.ts:147: browser.close() completes.
CloseBrowser ==
    /\ pc = "close"
    /\ browser' = "closed"
    /\ pc' = "evaluate"
    /\ UNCHANGED << inputs, uiVars, arrivals, baseUrl, tolerate, listeners, rawLogs, stepVars,
                    evalVars, files, exitCode >>

\* An evaluation that counts HTTP errors only when a response was the first
\* signal of the run to be recorded.
EvaluationReadsArrivalOrder(av, tol, errs, ce, pe, rf, he) ==
    LET fHttp    == IF arrivals # <<>> /\ arrivals[1] = "response"
                    THEN FilterHttpErrors(he, tol) ELSE <<>>
        fConsole == FilterConsoleErrors(ce, tol)
        fPage    == FilterPageErrors(pe)
        fReq     == FilterRequestFailures(rf)
        pOk      == PageOk(av, tol, fPage)
        cOk      == ConsoleOk(av, tol, fConsole)
        hOk      == HttpOk(av, tol, fHttp)
        rOk      == ReqOk(av, tol, fReq)
    IN  [ filteredHttpErrors |-> fHttp, filteredConsoleErrors |-> fConsole,
          filteredPageErrors |-> fPage, filteredRequestFailures |-> fReq,
          pageOk |-> pOk, consoleOk |-> cOk, httpOk |-> hOk, reqOk |-> rOk,
          success |-> Success(errs, pOk, cOk, hOk, rOk) ]

\* runner.ts:162-179 as a function of what it reads: the command line, the
\* tolerance block, the step errors and the four raw logs.
Evaluation(av, tol, errs, ce, pe, rf, he) ==
    LET fHttp    == FilterHttpErrors(he, tol)
        fConsole == FilterConsoleErrors(ce, tol)
        fPage    == FilterPageErrors(pe)
        fReq     == FilterRequestFailures(rf)
        pOk      == PageOk(av, tol, fPage)
        cOk      == ConsoleOk(av, tol, fConsole)
        hOk      == HttpOk(av, tol, fHttp)
        rOk      == ReqOk(av, tol, fReq)
    IN  [ filteredHttpErrors |-> fHttp, filteredConsoleErrors |-> fConsole,
          filteredPageErrors |-> fPage, filteredRequestFailures |-> fReq,
          pageOk |-> pOk, consoleOk |-> cOk, httpOk |-> hOk, reqOk |-> rOk,
          success |-> Success(errs, pOk, cOk, hOk, rOk) ]

\* The summary object, runner.ts:181-199 (description and timestamp, which
\* nothing reads back, are left out).
Summary(name, base, ok, errs, fPage, fConsole, fHttp, fReq) ==
    [ testName |-> name,
      baseUrl |-> base,
      success |-> ok,
      counts |-> [ stepErrors |-> Len(errs),
                   pageErrors |-> Len(fPage),
                   consoleErrors |-> Len(fConsole),
                   httpErrors |-> Len(fHttp),
                   requestFailures |-> Len(fReq) ],
      stepErrors |-> errs,
      pageErrors |-> fPage,
      consoleErrors |-> fConsole,
      httpErrors |-> fHttp,
      requestFailures |-> fReq ]

\* The filters and the summary computed before browser.close() is awaited.
EvaluateBeforeClose ==
    /\ pc = "close"
    /\ summary = {}
    /\ LET e == Evaluation(argv, tolerate, stepErrors,
                           consoleErrors, pageErrors, requestFailures, httpErrors)
       IN  /\ filteredHttpErrors' = e.filteredHttpErrors
           /\ filteredConsoleErrors' = e.filteredConsoleErrors
           /\ filteredPageErrors' = e.filteredPageErrors
           /\ filteredRequestFailures' = e.filteredRequestFailures
           /\ pageOk' = e.pageOk
           /\ consoleOk' = e.consoleOk
           /\ httpOk' = e.httpOk
           /\ reqOk' = e.reqOk
           /\ success' = e.success
           /\ summary' = { Summary(test.name, CHOOSE b \in baseUrl : TRUE, e.success,
                                    stepErrors, e.filteredPageErrors,
                                    e.filteredConsoleErrors, e.filteredHttpErrors,
                                    e.filteredRequestFailures) }
    /\ UNCHANGED << inputs, uiVars, arrivals, pc, baseUrl, tolerate, browser, listeners, rawLogs,
                    stepVars, files, exitCode >>

\* runner.ts:149-199: tolerance filters, category flags, the verdict and the
\* summary object, computed without an await in between.
Evaluate ==
    /\ pc = "evaluate"
    /\ LET e == Evaluation(argv, tolerate, stepErrors,
                           consoleErrors, pageErrors, requestFailures, httpErrors)
       IN  /\ filteredHttpErrors' = e.filteredHttpErrors
           /\ filteredConsoleErrors' = e.filteredConsoleErrors
           /\ filteredPageErrors' = e.filteredPageErrors
           /\ filteredRequestFailures' = e.filteredRequestFailures
           /\ pageOk' = e.pageOk
           /\ consoleOk' = e.consoleOk
           /\ httpOk' = e.httpOk
           /\ reqOk' = e.reqOk
           /\ success' = e.success
           /\ summary' = { Summary(test.name, CHOOSE b \in baseUrl : TRUE, e.success,
                                    stepErrors, e.filteredPageErrors,
                                    e.filteredConsoleErrors, e.filteredHttpErrors,
                                    e.filteredRequestFailures) }
    /\ pc' = "write"
    /\ UNCHANGED << inputs, uiVars, arrivals, baseUrl, tolerate, browser, listeners, rawLogs,
                    stepVars, files, exitCode >>

ReportFiles == { << "report", 0, f >> : f \in { "result.json", "builder-prompt.md", "tldr.txt" } }

\* runner.ts:201-213: the summary is written as result.json, builder-prompt.md
\* and tldr.txt; run() resolves.
WriteReports ==
    /\ pc = "write"
    /\ files' = files \cup ReportFiles
    /\ pc' = "resolved"
    /\ UNCHANGED << inputs, uiVars, arrivals, baseUrl, tolerate, browser, listeners, rawLogs,
                    stepVars, evalVars, exitCode >>

\* runner.ts:251-254: run() rejected; the handler exits with status 1.
CatchHandler ==
    /\ pc = "rejected"
    /\ exitCode' = { 1 }
    /\ pc' = "exited"
    /\ UNCHANGED << inputs, uiVars, arrivals, baseUrl, tolerate, browser, listeners, rawLogs,
                    stepVars, evalVars, files >>

\* run() resolved and nothing else is pending: the process ends by itself.
\* The runner sets no exit status on this path (runner.ts:213 returns; the only
\* process.exit is that of runner.ts:253), so the status is the default one.
ProcessEnds ==
    /\ pc = "resolved"
    /\ exitCode' = { 0 }
    /\ pc' = "exited"
    /\ UNCHANGED << inputs, uiVars, arrivals, baseUrl, tolerate, browser, listeners, rawLogs,
                    stepVars, evalVars, files >>

----------------------------------------------------------------------------
(* Signal collection, runner.ts:58-77 *)

MaxSignals == 2

Logged == Len(consoleErrors) + Len(pageErrors) + Len(requestFailures) + Len(httpErrors)

\* A page event reaches a handler only while the page lives, the handler is
\* installed, and run() is suspended.
Deliverable(event) ==
    /\ browser = "open"
    /\ event \in listeners
    /\ pc \in AwaitPoints
    /\ Logged < MaxSignals

UrlApi     == << "/", "a", "p", "i" >>
UrlBracket == << "/", "q", "[", "1" >>
TextApi    == << "A", "p", "i", "!" >>
TextOops   == << "o", "[", "p", "s" >>

StatusText(status) ==
    CASE status = 400 -> "Bad Request"
      [] status = 401 -> "Unauthorized"
      [] status = 500 -> "Internal Server Error"
      [] OTHER        -> "OK"

\* The events the page emits during a run.
ConsoleMessages  == { [ type |-> "error", text |-> TextApi ],
                      [ type |-> "error", text |-> TextOops ],
                      [ type |-> "warning", text |-> TextApi ] }
PageExceptions   == { "Error: boom" }
FailedRequests   == { [ url |-> UrlApi, method |-> "GET", errorText |-> { "net::ERR_FAILED" } ] }
Responses        == { [ url |-> UrlApi, status |-> st ] : st \in { 399, 400 } }

\* unshift in place of push: the newest console error goes first.
OnConsoleUnshift(msg) ==
    /\ Deliverable("console")
    /\ consoleErrors' = IF msg.type = "error"
                        THEN << [ type |-> msg.type, text |-> msg.text ] >> \o consoleErrors
                        ELSE consoleErrors
    /\ arrivals' = IF consoleErrors' # consoleErrors THEN Append(arrivals, "console") ELSE arrivals
    /\ UNCHANGED << inputs, uiVars, pc, baseUrl, tolerate, browser, listeners,
                    pageErrors, requestFailures, httpErrors,
                    stepVars, evalVars, files, exitCode >>

\* runner.ts:58-62 (msg.location() is stored and never read; it is left out).
OnConsole(msg) ==
    /\ Deliverable("console")
    /\ consoleErrors' = IF msg.type = "error"
                        THEN Append(consoleErrors, [ type |-> msg.type, text |-> msg.text ])
                        ELSE consoleErrors
    /\ arrivals' = IF consoleErrors' # consoleErrors THEN Append(arrivals, "console") ELSE arrivals
    /\ UNCHANGED << inputs, uiVars, pc, baseUrl, tolerate, browser, listeners,
                    pageErrors, requestFailures, httpErrors,
                    stepVars, evalVars, files, exitCode >>

\* The uncaught exception of the page rethrown into run().
OnPageErrorAborts(e) ==
    /\ Deliverable("pageerror")
    /\ pageErrors' = Append(pageErrors, e)
    /\ pc' = "rejected"
    /\ arrivals' = IF pageErrors' # pageErrors THEN Append(arrivals, "pageerror") ELSE arrivals
    /\ UNCHANGED << inputs, uiVars, baseUrl, tolerate, browser, listeners,
                    consoleErrors, requestFailures, httpErrors,
                    stepVars, evalVars, files, exitCode >>

\* runner.ts:64-66
OnPageError(e) ==
    /\ Deliverable("pageerror")
    /\ pageErrors' = Append(pageErrors, e)
    /\ arrivals' = IF pageErrors' # pageErrors THEN Append(arrivals, "pageerror") ELSE arrivals
    /\ UNCHANGED << inputs, uiVars, pc, baseUrl, tolerate, browser, listeners,
                    consoleErrors, requestFailures, httpErrors,
                    stepVars, evalVars, files, exitCode >>

\* runner.ts:68-70:  req.failure()?.errorText ?? "unknown"
OnRequestFailed(req) ==
    /\ Deliverable("requestfailed")
    /\ requestFailures' = Append(requestFailures,
            [ url |-> req.url, method |-> req.method,
              failure |-> IF req.errorText = {} THEN "unknown"
                          ELSE CHOOSE x \in req.errorText : TRUE ])
    /\ arrivals' = IF requestFailures' # requestFailures THEN Append(arrivals, "requestfailed") ELSE arrivals
    /\ UNCHANGED << inputs, uiVars, pc, baseUrl, tolerate, browser, listeners,
                    consoleErrors, pageErrors, httpErrors,
                    stepVars, evalVars, files, exitCode >>

\* The status test written with > in place of >=.
OnResponseAbove400(res) ==
    /\ Deliverable("response")
    /\ httpErrors' = IF res.status > 400
                     THEN Append(httpErrors, [ url |-> res.url, status |-> res.status,
                                               statusText |-> StatusText(res.status) ])
                     ELSE httpErrors
    /\ arrivals' = IF httpErrors' # httpErrors THEN Append(arrivals, "response") ELSE arrivals
    /\ UNCHANGED << inputs, uiVars, pc, baseUrl, tolerate, browser, listeners,
                    consoleErrors, pageErrors, requestFailures,
                    stepVars, evalVars, files, exitCode >>

\* runner.ts:72-77
OnResponse(res) ==
    /\ Deliverable("response")
    /\ httpErrors' = IF res.status >= 400
                     THEN Append(httpErrors, [ url |-> res.url, status |-> res.status,
                                               statusText |-> StatusText(res.status) ])
                     ELSE httpErrors
    /\ arrivals' = IF httpErrors' # httpErrors THEN Append(arrivals, "response") ELSE arrivals
    /\ UNCHANGED << inputs, uiVars, pc, baseUrl, tolerate, browser, listeners,
                    consoleErrors, pageErrors, requestFailures,
                    stepVars, evalVars, files, exitCode >>

----------------------------------------------------------------------------
(* Inputs: command lines and test definitions *)

ToggleNames == { "httpErrors", "consoleErrors", "pageErrors", "requestFailures" }
FlagNames   == { "ignoreHttpErrors", "ignoreConsoleErrors", "ignorePageErrors",
                 "ignoreRequestFailures" }

\* yargs gives every ignore flag a boolean (default false); baseUrl is optional.
NoFlags == [ f \in FlagNames |-> FALSE ]

\* obj with the optional field f set when o (an Opt value) holds a value.
WithOpt(obj, f, o) == IF o = {} THEN obj ELSE (f :> (CHOOSE x \in o : TRUE)) @@ obj

\* Steps the schema admits (src/unnamed/part_000:15-67).
NavPath   == [ action |-> "navigate", path |-> "/login" ]
NavUrl    == [ action |-> "navigate", url |-> "http://other/" ]
NavBare   == [ action |-> "navigate" ]
NavEmpty  == [ action |-> "navigate", url |-> "" ]
NavBoth   == [ action |-> "navigate", url |-> "http://other/", path |-> "/login" ]
NavEmptyUrlPath == [ action |-> "navigate", url |-> "", path |-> "/login" ]
Click     == [ action |-> "click", selector |-> "#go" ]
TypeEnter == [ action |-> "type", selector |-> "#pw", text |-> "secret", pressEnter |-> TRUE ]
TypePlain == [ action |-> "type", selector |-> "#pw", text |-> "secret" ]
Fill      == [ action |-> "fill", selector |-> "#pw", text |-> "secret" ]
WaitSel   == [ action |-> "waitForSelector", selector |-> "#msg", state |-> "attached" ]
ExpVis    == [ action |-> "expectVisible", selector |-> "#msg" ]
ExpText   == [ action |-> "expectText", selector |-> "#msg", text |-> << "o", "k" >> ]
ExpEmpty  == [ action |-> "expectText", selector |-> "#msg", text |-> <<>> ]
WaitMs    == [ action |-> "wait", ms |-> 500 ]
ShotNamed == [ action |-> "screenshot", name |-> "after" ]
ShotPlain == [ action |-> "screenshot" ]

\* The step sequences of the runs that are explored.
StepLists ==
    { << NavPath, Click, Fill, ExpVis, WaitMs >>,
      << NavUrl, TypeEnter, ExpText >>,
      << NavBare, TypePlain, ShotNamed >>,
      << NavEmpty, WaitSel, ShotPlain >>,
      << ExpEmpty >>,
      << NavBoth, NavEmptyUrlPath >> }

\* Tolerance blocks of the runs that are explored.
TolAll   == [ t \in ToggleNames |-> TRUE ]
TolLists == [ httpStatusAllowlist |-> << 400 >>,
              consolePatternAllowlist |-> << << "a", "p", "i" >> >>,
              pageErrors |-> FALSE ]

RunTolerates == { {}, { TolAll }, { TolLists } }

TestDef(steps, base, tol) ==
    WithOpt(WithOpt([ name |-> "flow", steps |-> steps ], "baseUrl", base), "tolerate", tol)

ArgvCli == WithOpt(NoFlags, "baseUrl", { "http://cli" })

RunArgvs ==
    { NoFlags, WithOpt(NoFlags, "baseUrl", { "" }), ArgvCli,
      WithOpt([ NoFlags EXCEPT !["ignoreRequestFailures"] = TRUE ], "baseUrl", { "http://cli" }) }

\* The runs that are explored: every step sequence under the plain
\* configuration, and every configuration with a one-step test.
RunInputs ==
    { << ArgvCli, TestDef(s, {}, {}) >> : s \in StepLists }
    \cup { << av, TestDef(<< Click >>, b, t) >> :
              av \in RunArgvs, b \in { {}, { "http://app" } }, t \in RunTolerates }

\* The builder UI after its first render with the generated session id sid
\* (WebTestBuilderUI.tsx:60-71, 108); no message has been handled.
BuilderMounted(sid) ==
    /\ sessionId = sid
    /\ subscribedId = sid
    /\ builderTest = [ name |-> "New Test", description |-> "Describe the user goal",
                       baseUrl |-> "http://localhost:3000",
                       steps |-> << [ action |-> "navigate", path |-> "/" ] >> ]
    /\ lastEvent = <<>>
    /\ lastMsg = <<>>

\* The state in which run() is called with command line av and test file t.
InitWith(av, t) ==
    /\ argv = av
    /\ test = t
    /\ pc = "start"
    /\ baseUrl = {}
    /\ tolerate = EmptyObj
    /\ browser = "none"
    /\ listeners = {}
    /\ consoleErrors = <<>>
    /\ pageErrors = <<>>
    /\ requestFailures = <<>>
    /\ httpErrors = <<>>
    /\ stepErrors = <<>>
    /\ arrivals = <<>>
    /\ i = 0
    /\ sub = 0
    /\ err = {}
    /\ content = {}
    /\ calls = <<>>
    /\ filteredHttpErrors = <<>>
    /\ filteredConsoleErrors = <<>>
    /\ filteredPageErrors = <<>>
    /\ filteredRequestFailures = <<>>
    /\ pageOk = FALSE
    /\ consoleOk = FALSE
    /\ httpOk = FALSE
    /\ reqOk = FALSE
    /\ success = FALSE
    /\ summary = {}
    /\ files = {}
    /\ exitCode = {}
    /\ BuilderMounted("s1")

Init == \E in \in RunInputs : InitWith(in[1], in[2])

Next ==
    \/ Preflight
    \/ Launch
    \/ LaunchFails
    \/ NewPage
    \/ NewPageFails
    \/ Subscribe
    \/ LoopTest
    \/ DoStepIssue
    \/ NavigateNoTarget
    \/ CallResolves
    \/ CallRejects
    \/ ExpectTextMismatch
    \/ StepBreak
    \/ CatchScreenshot
    \/ ShotSettles
    \/ CloseBrowser
    \/ Evaluate
    \/ WriteReports
    \/ CatchHandler
    \/ ProcessEnds
    \/ \E msg \in ConsoleMessages : OnConsole(msg)
    \/ \E e \in PageExceptions : OnPageError(e)
    \/ \E req \in FailedRequests : OnRequestFailed(req)
    \/ \E res \in Responses : OnResponse(res)

Spec == Init /\ [][Next]_vars

----------------------------------------------------------------------------
(* The tolerance evaluator on drawn inputs: the states in which runner.ts:149
   is reached after a one-step run, for bounded sets of command lines,
   tolerance blocks and raw logs. *)

MaxLog   == 2
MaxAllow == 2

PatApiUpper == << "A", "P", "I" >>
PatDot      == << "a", ".", "i" >>
PatBracket  == << "[" >>

PatBracketUpper == << "[", "P" >>
PatternPool == { PatApiUpper, PatDot, PatBracket }
ConsolePatternPool == PatternPool \cup { PatBracketUpper }
StatusPool  == { 401, 500 }

HttpError(u, st) == [ url |-> u, status |-> st, statusText |-> StatusText(st) ]
ConsoleError(t)  == [ type |-> "error", text |-> t ]
RequestFailure   == [ url |-> UrlApi, method |-> "GET", failure |-> "net::ERR_FAILED" ]

HttpErrorPool    == { HttpError(u, st) : u \in { UrlApi, UrlBracket }, st \in StatusPool }
ConsoleErrorPool == { ConsoleError(t) : t \in { TextApi, TextOops } }

\* Both HTTP allowlists, as a tolerance block of its own.
HttpListsA == [ httpStatusAllowlist |-> << 401 >>, httpUrlAllowlist |-> << PatBracket >> ]

\* An optional array field: undefined, or any array over S of at most n entries.
OptSeqs(S, n) == { {} } \cup { { l } : l \in SeqsUpTo(S, n) }

\* The status allowlists that are explored: undefined, empty, and every
\* choice of statuses.
StatusLists == { {}, { <<>> }, { << 401 >> }, { << 500 >> }, { << 401, 500 >> } }

\* Any subset of the four toggles present, each true or false.
ToggleBlocks == UNION { [ D -> BOOLEAN ] : D \in SUBSET ToggleNames }

ListsA == [ httpStatusAllowlist |-> << 401 >>,
            httpUrlAllowlist |-> << PatDot >>,
            consolePatternAllowlist |-> << PatApiUpper >> ]

\* Four raw logs holding at most MaxSignals entries in total.
SmallLogs ==
    { l \in [ he : SeqsUpTo({ HttpError(UrlApi, 401) }, MaxSignals),
              ce : SeqsUpTo({ ConsoleError(TextApi) }, MaxSignals),
              pe : SeqsUpTo(PageExceptions, MaxSignals),
              rf : SeqsUpTo({ RequestFailure }, MaxSignals) ] :
        Len(l.he) + Len(l.ce) + Len(l.pe) + Len(l.rf) <= MaxSignals }

EvalInput(av, tol, he, ce, pe, rf) ==
    [ av |-> av, tol |-> tol, he |-> he, ce |-> ce, pe |-> pe, rf |-> rf ]

\* run() about to execute runner.ts:149: the single click step succeeded, the
\* browser is closed, and the logs hold what the handlers collected.
EvalEntry(in) ==
    /\ argv = in.av
    /\ test = TestDef(<< Click >>, { "http://app" }, { in.tol })
    /\ pc = "evaluate"
    /\ baseUrl = { "http://app" }
    /\ tolerate = in.tol
    /\ browser = "closed"
    /\ listeners = PageEvents
    /\ consoleErrors = in.ce
    /\ pageErrors = in.pe
    /\ requestFailures = in.rf
    /\ httpErrors = in.he
    /\ stepErrors = <<>>
    /\ arrivals = [ k \in 1..Len(in.ce) |-> "console" ] \o [ k \in 1..Len(in.pe) |-> "pageerror" ]
                  \o [ k \in 1..Len(in.rf) |-> "requestfailed" ] \o [ k \in 1..Len(in.he) |-> "response" ]
    /\ i = 1
    /\ sub = 1
    /\ err = {}
    /\ content = {}
    /\ calls = << [ pos |-> 0, op |-> "click", st |-> "resolved", arg |-> {} ] >>
    /\ filteredHttpErrors = <<>>
    /\ filteredConsoleErrors = <<>>
    /\ filteredPageErrors = <<>>
    /\ filteredRequestFailures = <<>>
    /\ pageOk = FALSE
    /\ consoleOk = FALSE
    /\ httpOk = FALSE
    /\ reqOk = FALSE
    /\ success = FALSE
    /\ summary = {}
    /\ files = {}
    /\ exitCode = {}
    /\ BuilderMounted("s1")

\* Every combination of ignore flags and toggles, with and without
\* allowlists, on the small logs.
InitFlags ==
    \E av \in [ FlagNames -> BOOLEAN ], tg \in ToggleBlocks, ls \in { EmptyObj, ListsA },
       l \in SmallLogs :
        EvalEntry(EvalInput(av, tg @@ ls, l.he, l.ce, l.pe, l.rf))

\* Every HTTP allowlist pair on every HTTP log.
InitHttp ==
    \E sl \in StatusLists, ul \in OptSeqs(PatternPool, MaxAllow),
       he \in SeqsUpTo(HttpErrorPool, MaxLog) :
        EvalEntry(EvalInput(NoFlags,
                            WithOpt(WithOpt(EmptyObj, "httpStatusAllowlist", sl),
                                    "httpUrlAllowlist", ul),
                            he, <<>>, <<>>, <<>>))

\* Every console allowlist on every console log.
InitConsole ==
    \E hl \in { EmptyObj, HttpListsA }, cl \in OptSeqs(ConsolePatternPool, MaxAllow),
       he \in { <<>>, << HttpError(UrlApi, 401) >> },
       ce \in SeqsUpTo(ConsoleErrorPool, MaxLog) :
        EvalEntry(EvalInput(NoFlags, WithOpt(hl, "consolePatternAllowlist", cl),
                            he, ce, <<>>, <<>>))

InitEval == InitFlags \/ InitHttp \/ InitConsole

NextEval == Evaluate

SpecEval == InitEval /\ [][NextEval]_vars

----------------------------------------------------------------------------
(* Properties of a run *)

\* The loop of runner.ts:142-144 has been left.
AfterLoop == browser = "closed" \/ pc = "close"

\* Filters and verdict have been computed (runner.ts:179 has run).
Evaluated == browser = "closed" /\ pc \in { "write", "resolved", "exited" }

\* No step is in the middle of its catch clause.
AtStepBoundary == pc \notin { "catch", "awaitShot" }

\* The page calls issued for the step at 0-based position p, in order.
CallsAt(p) ==
    LET at(c) == c.pos = p IN SelectSeq(calls, at)

OpsOf(cs) == [ k \in DOMAIN cs |-> cs[k].op ]

IsPrefix(a, b) == Len(a) <= Len(b) /\ \A k \in 1 .. Len(a) : a[k] = b[k]

\* 0-based positions of the steps whose catch clause has run.
FailedPositions == { c.pos : c \in { d \in Range(calls) : d.op = "errorScreenshot" } }

Positions == 0 .. (Len(test.steps) - 1)

\* C1: once the verdict is computed, it is success exactly when no step error
\* was recorded and the page, console, HTTP and request flags are all ok.
C1_VerdictIsConjunction ==
    Evaluated =>
        ( success <=> ( stepErrors = <<>> /\ pageOk /\ consoleOk /\ httpOk /\ reqOk ) )

\* C1 witness: a run with no failed step and three ok categories fails on the
\* single not-ok category.
C1_Witness_SingleCategoryFails ==
    /\ Evaluated
    /\ stepErrors = <<>>
    /\ pageOk /\ consoleOk /\ reqOk /\ ~httpOk
    /\ ~success

\* C3 (as claimed): the process ends with status 0 only when the verdict was
\* computed and is success; a failed verdict or a missing base URL gives a
\* non-zero status.
C3_ExitStatusReflectsVerdict ==
    pc = "exited" => ( exitCode = { 0 } <=> ( Evaluated /\ success ) )

\* C4: page calls are issued in step order; the calls of one step are a single
\* pass over the step's calls (a prefix of them, then at most the failure
\* screenshot), so no step is attempted twice; when the loop is left every
\* step has been attempted, whatever failed before it; and a run that
\* started executing steps is never rejected.
C4_EveryStepAttemptedOnce ==
    /\ \A k \in 1 .. (Len(calls) - 1) : calls[k].pos <= calls[k + 1].pos
    /\ \A p \in Positions :
          LET ops == OpsOf(CallsAt(p))
              plan == PageCalls(test.steps[p + 1])
          IN  \/ IsPrefix(ops, plan)
              \/ /\ ops # <<>>
                 /\ ops[Len(ops)] = "errorScreenshot"
                 /\ IsPrefix(SubSeq(ops, 1, Len(ops) - 1), plan)
    /\ AfterLoop => \A p \in Positions : CallsAt(p) # <<>>
    /\ pc = "rejected" => calls = <<>>

\* C4 witness: the loop of a five-step run is left although the first step
\* failed, and the last step was still executed without error.
C4_Witness_ContinuesAfterFailure ==
    /\ pc = "close"
    /\ Len(test.steps) = 5
    /\ 0 \in FailedPositions
    /\ 4 \notin FailedPositions
    /\ CallsAt(4) # <<>>

\* C5 (as claimed): after the last step the outcome list holds one entry per
\* input step.
C5_OneOutcomePerStep ==
    AfterLoop => Len(stepErrors) = Len(test.steps)

\* C5 (amended): the list holds one entry per failed step and none for a step
\* that succeeded, in step order; so its length is the number of failed steps,
\* at most the number of input steps.
C5_OneOutcomePerFailedStep ==
    AfterLoop =>
        /\ Len(stepErrors) = Cardinality(FailedPositions)
        /\ Len(stepErrors) <= Len(test.steps)
        /\ \A k \in 1 .. (Len(stepErrors) - 1) : stepErrors[k].index < stepErrors[k + 1].index
        /\ \A k \in 1 .. Len(stepErrors) : (stepErrors[k].index - 1) \in FailedPositions

\* C5 witness: a five-step run ends with two recorded failures.
C5_Witness_PartialFailures ==
    /\ AfterLoop
    /\ Len(test.steps) = 5
    /\ Len(stepErrors) = 2
    /\ FailedPositions = { 1, 3 }

\* C6 (as claimed): the step failing at 0-based position p has exactly one
\* failed outcome, whose recorded index is p; other steps have none.
C6_FailedIndexIsPosition ==
    AtStepBoundary =>
        \A p \in Positions :
            Cardinality({ k \in 1 .. Len(stepErrors) : stepErrors[k].index = p })
                = IF p \in FailedPositions THEN 1 ELSE 0

\* C6 (amended): the step failing at 0-based position p has exactly one failed
\* outcome, whose recorded index is p + 1 and whose step is that step; a step
\* that succeeds has none.
C6_FailedIndexIsStepNumber ==
    AtStepBoundary =>
        /\ \A p \in Positions :
              Cardinality({ k \in 1 .. Len(stepErrors) : stepErrors[k].index = p + 1 })
                  = IF p \in FailedPositions THEN 1 ELSE 0
        /\ \A k \in 1 .. Len(stepErrors) :
              /\ (stepErrors[k].index - 1) \in Positions
              /\ stepErrors[k].step = test.steps[stepErrors[k].index]

\* C6 witness: of five steps only the one at 0-based position 2 failed, and
\* the only record carries index 3.
C6_Witness_ThirdOfFive ==
    /\ AfterLoop
    /\ Len(test.steps) = 5
    /\ FailedPositions = { 2 }
    /\ Len(stepErrors) = 1
    /\ stepErrors[1].index = 3

----------------------------------------------------------------------------
(* Properties of the tolerance evaluator *)

HasTrue(obj, f) == f \in DOMAIN obj /\ obj[f] = TRUE

\* C2: each category flag is true exactly when the category's ignore flag is
\* set, or its toggle is true, or its effective log is empty.
C2_CategoryOk ==
    Evaluated =>
        /\ pageOk <=> ( argv.ignorePageErrors \/ HasTrue(tolerate, "pageErrors")
                        \/ filteredPageErrors = <<>> )
        /\ consoleOk <=> ( argv.ignoreConsoleErrors \/ HasTrue(tolerate, "consoleErrors")
                           \/ filteredConsoleErrors = <<>> )
        /\ httpOk <=> ( argv.ignoreHttpErrors \/ HasTrue(tolerate, "httpErrors")
                        \/ filteredHttpErrors = <<>> )
        /\ reqOk <=> ( argv.ignoreRequestFailures \/ HasTrue(tolerate, "requestFailures")
                       \/ filteredRequestFailures = <<>> )

\* C2 witness: the page-error toggle alone makes the category ok, with one
\* entry left in the effective log and allowlists present.
C2_Witness_ToggleOverridesCount ==
    /\ Evaluated
    /\ ~argv.ignorePageErrors
    /\ HasTrue(tolerate, "pageErrors")
    /\ "httpStatusAllowlist" \in DOMAIN tolerate
    /\ Len(filteredPageErrors) = 1
    /\ pageOk

\* C7: each effective log is a subsequence of its raw log.
C7_EffectiveIsSubsequence ==
    Evaluated =>
        /\ IsSubseq(filteredHttpErrors, httpErrors)
        /\ IsSubseq(filteredConsoleErrors, consoleErrors)
        /\ IsSubseq(filteredPageErrors, pageErrors)
        /\ IsSubseq(filteredRequestFailures, requestFailures)

\* C7 witness: of two different raw console errors the first one is
\* suppressed and the second one kept.
C7_Witness_ProperSubsequence ==
    /\ Evaluated
    /\ Len(consoleErrors) = 2
    /\ consoleErrors[1] # consoleErrors[2]
    /\ filteredConsoleErrors = << consoleErrors[2] >>

\* C8: filtering the effective logs again, with the same tolerance block,
\* gives the effective logs.
C8_FilterIdempotent ==
    Evaluated =>
        /\ FilterHttpErrors(filteredHttpErrors, tolerate) = filteredHttpErrors
        /\ FilterConsoleErrors(filteredConsoleErrors, tolerate) = filteredConsoleErrors
        /\ FilterPageErrors(filteredPageErrors) = filteredPageErrors
        /\ FilterRequestFailures(filteredRequestFailures) = filteredRequestFailures

\* C8 witness: a log of which the filter removed an entry and kept another.
C8_Witness_PartlyFiltered ==
    /\ Evaluated
    /\ Len(httpErrors) = 2
    /\ httpErrors[1] # httpErrors[2]
    /\ filteredHttpErrors = << httpErrors[2] >>
    /\ "httpUrlAllowlist" \in DOMAIN tolerate

\* The tolerance blocks obtained from tol by one relaxation: a toggle turned
\* on, or one entry added to an allowlist.
AddEntry(tol, f, x) ==
    (f :> (IF f \in DOMAIN tol THEN Append(tol[f], x) ELSE << x >>)) @@ tol

RelaxedTolerates(tol) ==
    { (t :> TRUE) @@ tol : t \in ToggleNames }
    \cup { AddEntry(tol, "httpStatusAllowlist", st) : st \in StatusPool }
    \cup { AddEntry(tol, "httpUrlAllowlist", q) : q \in PatternPool }
    \cup { AddEntry(tol, "consolePatternAllowlist", q) : q \in PatternPool }

\* The command lines obtained from av by setting one ignore flag.
RelaxedArgvs(av) == { [ av EXCEPT ![f] = TRUE ] : f \in FlagNames }

\* The evaluation of the same raw logs and step errors under another
\* configuration.
Reevaluated(av, tol) ==
    Evaluation(av, tol, stepErrors, consoleErrors, pageErrors, requestFailures, httpErrors)

NothingAdded(e) ==
    /\ IsSubseq(e.filteredHttpErrors, filteredHttpErrors)
    /\ IsSubseq(e.filteredConsoleErrors, filteredConsoleErrors)
    /\ IsSubseq(e.filteredPageErrors, filteredPageErrors)
    /\ IsSubseq(e.filteredRequestFailures, filteredRequestFailures)

\* C9: with the raw logs and step errors fixed, one relaxation of the
\* configuration keeps a success verdict and adds nothing to an effective log.
C9_VerdictMonotone ==
    Evaluated =>
        /\ \A tol \in RelaxedTolerates(tolerate) :
              /\ success => Reevaluated(argv, tol).success
              /\ NothingAdded(Reevaluated(argv, tol))
        /\ \A av \in RelaxedArgvs(argv) :
              /\ success => Reevaluated(av, tolerate).success
              /\ NothingAdded(Reevaluated(av, tolerate))

\* C9 witness: a successful run whose two raw HTTP errors are all suppressed
\* by a one-entry URL allowlist, to which further entries can be added.
C9_Witness_SuccessByAllowlist ==
    /\ Evaluated
    /\ success
    /\ Len(httpErrors) = 2
    /\ "httpUrlAllowlist" \in DOMAIN tolerate
    /\ Len(tolerate.httpUrlAllowlist) = 1
    /\ "httpStatusAllowlist" \notin DOMAIN tolerate

StatusAllowed(h) ==
    /\ "httpStatusAllowlist" \in DOMAIN tolerate
    /\ \E k \in DOMAIN tolerate.httpStatusAllowlist : tolerate.httpStatusAllowlist[k] = h.status

UrlAllowed(h) ==
    /\ "httpUrlAllowlist" \in DOMAIN tolerate
    /\ \E k \in DOMAIN tolerate.httpUrlAllowlist :
          PatternMatches(tolerate.httpUrlAllowlist[k], h.url)

\* C10: a raw HTTP error is missing from the effective HTTP log exactly when
\* its status is in the status allowlist or its URL matches an entry of the
\* URL allowlist; the entries that are kept are kept as often as they occur.
C10_HttpSuppression ==
    Evaluated =>
        /\ \A k \in DOMAIN httpErrors :
              ( httpErrors[k] \notin Range(filteredHttpErrors) )
                  <=> ( StatusAllowed(httpErrors[k]) \/ UrlAllowed(httpErrors[k]) )
        /\ LET kept(h) == ~( StatusAllowed(h) \/ UrlAllowed(h) )
           IN  Len(filteredHttpErrors) = Len(SelectSeq(httpErrors, kept))
        /\ ( tolerate = [ httpStatusAllowlist |-> << 401 >> ]
             /\ httpErrors = << HttpError(UrlApi, 401) >> )
               => ( filteredHttpErrors = <<>> /\ httpOk )

\* C10 witness: one raw error is suppressed by its URL alone (its status is
\* not in the status allowlist), another by its status alone.
C10_Witness_EitherSuffices ==
    /\ Evaluated
    /\ filteredHttpErrors = <<>>
    /\ \E k \in DOMAIN httpErrors : UrlAllowed(httpErrors[k]) /\ ~StatusAllowed(httpErrors[k])
    /\ \E k \in DOMAIN httpErrors : StatusAllowed(httpErrors[k]) /\ ~UrlAllowed(httpErrors[k])

----------------------------------------------------------------------------
(* Console suppression *)

ConsoleAllowed(c) ==
    /\ "consolePatternAllowlist" \in DOMAIN tolerate
    /\ \E k \in DOMAIN tolerate.consolePatternAllowlist :
          PatternMatches(tolerate.consolePatternAllowlist[k], c.text)

\* The tolerance block without its two HTTP allowlists.
WithoutHttpLists(tol) ==
    [ f \in DOMAIN tol \ { "httpStatusAllowlist", "httpUrlAllowlist" } |-> tol[f] ]

\* C11: a raw console error is missing from the effective console log exactly
\* when its text matches an entry of consolePatternAllowlist; the kept entries
\* are kept as often as they occur; the HTTP allowlists change nothing in the
\* effective console log; an absent or empty console allowlist suppresses
\* nothing.
C11_ConsoleSuppression ==
    Evaluated =>
        /\ \A k \in DOMAIN consoleErrors :
              ( consoleErrors[k] \notin Range(filteredConsoleErrors) )
                  <=> ConsoleAllowed(consoleErrors[k])
        /\ LET kept(c) == ~ConsoleAllowed(c)
           IN  filteredConsoleErrors = SelectSeq(consoleErrors, kept)
        /\ filteredConsoleErrors = FilterConsoleErrors(consoleErrors, WithoutHttpLists(tolerate))
        /\ ( Opt(tolerate, "consolePatternAllowlist") \in { {}, { <<>> } } )
               => filteredConsoleErrors = consoleErrors

\* C11 witness: with both HTTP allowlists present, and the URL allowlist
\* matching the text of the second console error, the console allowlist
\* suppresses the first console error only.
C11_Witness_OnlyConsoleListCounts ==
    /\ Evaluated
    /\ "httpUrlAllowlist" \in DOMAIN tolerate
    /\ consoleErrors = << ConsoleError(TextApi), ConsoleError(TextOops) >>
    /\ Opt(tolerate, "consolePatternAllowlist") = { << PatApiUpper >> }
    /\ MatchesAnyPattern(TextOops, Opt(tolerate, "httpUrlAllowlist"))
    /\ filteredConsoleErrors = << ConsoleError(TextOops) >>

----------------------------------------------------------------------------
(* Categories without an allowlist *)

\* C12: the effective page-error log and the effective request-failure log
\* equal their raw logs under every tolerance block; when such a category has
\* a raw entry, its flag is true exactly when its toggle is true or its global
\* ignore flag is set.
C12_NoAllowlistForPageAndRequest ==
    Evaluated =>
        /\ filteredPageErrors = pageErrors
        /\ filteredRequestFailures = requestFailures
        /\ pageErrors # <<>> =>
              ( pageOk <=> ( argv.ignorePageErrors \/ HasTrue(tolerate, "pageErrors") ) )
        /\ requestFailures # <<>> =>
              ( reqOk <=> ( argv.ignoreRequestFailures \/ HasTrue(tolerate, "requestFailures") ) )

\* C12 witness: all three allowlists are set, the URL allowlist matches the
\* URL of the failed request, the HTTP toggle is on, and the request failure
\* is still in the effective log and fails its category.
C12_Witness_RequestFailureKept ==
    /\ Evaluated
    /\ { "httpStatusAllowlist", "httpUrlAllowlist", "consolePatternAllowlist" }
           \subseteq DOMAIN tolerate
    /\ HasTrue(tolerate, "httpErrors")
    /\ requestFailures = << RequestFailure >>
    /\ MatchesAnyPattern(RequestFailure.url, Opt(tolerate, "httpUrlAllowlist"))
    /\ filteredRequestFailures = << RequestFailure >>
    /\ ~reqOk
    /\ ~success

----------------------------------------------------------------------------
(* Allowlist matching *)

\* What JavaScript answers for each allowlist entry and text of the model:
\* /API/i and /a.i/i are found in "/api" and in "Api!"; "[" does not compile
\* and is a substring of "/q[1" and of "o[ps"; "[P" does not compile and is a
\* substring of neither ("o[ps" has a lower-case p).
MatchTable ==
    { << PatApiUpper, UrlApi >>, << PatApiUpper, TextApi >>,
      << PatDot, UrlApi >>, << PatDot, TextApi >>,
      << PatBracket, UrlBracket >>, << PatBracket, TextOops >> }

ListedMatch(list, text) ==
    \E l \in list : \E j \in DOMAIN l : << l[j], text >> \in MatchTable

\* C13: matching a logged URL or text against its allowlist gives a boolean
\* for every allowlist, malformed entries included;
\* an entry that compiles matches as an unanchored case-insensitive regular
\* expression, an entry that does not compile matches exactly the texts that
\* contain it literally, and a text is suppressed when any entry of the list,
\* whatever precedes it, matches.
C13_MatchingNeverRaises ==
    /\ \A k \in DOMAIN httpErrors :
          MatchesAnyPattern(httpErrors[k].url, Opt(tolerate, "httpUrlAllowlist")) \in BOOLEAN
    /\ \A k \in DOMAIN consoleErrors :
          MatchesAnyPattern(consoleErrors[k].text, Opt(tolerate, "consolePatternAllowlist"))
              \in BOOLEAN
    /\ Evaluated =>
        /\ \A k \in DOMAIN httpErrors :
              ~StatusAllowed(httpErrors[k]) =>
                ( ( httpErrors[k] \notin Range(filteredHttpErrors) )
                    <=> ListedMatch(Opt(tolerate, "httpUrlAllowlist"), httpErrors[k].url) )
        /\ \A k \in DOMAIN consoleErrors :
              ( consoleErrors[k] \notin Range(filteredConsoleErrors) )
                <=> ListedMatch(Opt(tolerate, "consolePatternAllowlist"), consoleErrors[k].text)

\* C13 witness: the URL allowlist starts with the malformed entry "[" ; the
\* error whose URL contains "[" is suppressed by it, the error whose URL does
\* not is suppressed by the entry that follows it.
C13_Witness_MalformedThenValid ==
    /\ Evaluated
    /\ "httpStatusAllowlist" \notin DOMAIN tolerate
    /\ Opt(tolerate, "httpUrlAllowlist") = { << PatBracket, PatDot >> }
    /\ httpErrors = << HttpError(UrlBracket, 500), HttpError(UrlApi, 500) >>
    /\ filteredHttpErrors = <<>>

----------------------------------------------------------------------------
(* Signal subscriptions *)

\* run() is inside the step loop or at browser.close(), runner.ts:142-147.
SteppingPoints == { "loop", "doStep", "await", "catch", "awaitShot", "close" }

\* C14: once any page call has been issued all four subscriptions are
\* installed, and they are installed at every point from the first loop test
\* to the pending browser.close(): no page call is issued or in flight with a
\* subscription missing.
C14_SubscribedWhileStepping ==
    /\ calls # <<>> => listeners = PageEvents
    /\ ( browser = "open" /\ pc \in SteppingPoints ) => listeners = PageEvents
    /\ listeners \in { {}, PageEvents }

\* C14 witness: the first page call of the run is in flight and the four
\* subscriptions are installed.
C14_Witness_FirstCallInFlight ==
    /\ pc = "await"
    /\ Len(calls) = 1
    /\ browser = "open"
    /\ listeners = { "console", "pageerror", "requestfailed", "response" }

----------------------------------------------------------------------------
(* Sequential execution *)

\* The page calls whose promise has not settled.
Pending == { k \in DOMAIN calls : calls[k].st = "pending" }

\* C15: at most one page call is unsettled, it is the one issued last, and
\* run() is waiting for it; when a call of a later step follows a call in the
\* history, the earlier call has settled, a rejected step call is followed by
\* the failure screenshot of its own step and not by the next step, and a step
\* that failed has its step error recorded before the next step's call.
C15_OneActionInFlight ==
    /\ Cardinality(Pending) <= 1
    /\ \A k \in Pending : k = Len(calls) /\ pc \in { "await", "awaitShot" }
    /\ \A k \in 1 .. (Len(calls) - 1) :
          /\ calls[k].st # "pending"
          /\ calls[k + 1].pos # calls[k].pos =>
                /\ calls[k + 1].pos = calls[k].pos + 1
                /\ calls[k].st = "rejected" => calls[k].op = "errorScreenshot"
                /\ calls[k].op = "errorScreenshot" =>
                      \E j \in DOMAIN stepErrors :
                          stepErrors[j].index = StepNumber(calls[k].pos)

\* C15 witness: the first step failed, its failure screenshot was attempted
\* and failed too, its step error is recorded, and the second step's first
\* call is the only one in flight.
C15_Witness_NextAfterFailureSettled ==
    /\ pc = "await"
    /\ Len(calls) = 3
    /\ calls[1].pos = 0 /\ calls[1].st = "rejected"
    /\ calls[2] = [ pos |-> 0, op |-> "errorScreenshot", st |-> "rejected", arg |-> {} ]
    /\ calls[3].pos = 1 /\ calls[3].st = "pending"
    /\ Len(stepErrors) = 1 /\ stepErrors[1].index = 1

----------------------------------------------------------------------------
(* Signal collection during the session *)

\* One of the four handlers runs, runner.ts:58-77.
HandlerRuns ==
    \/ \E msg \in ConsoleMessages : OnConsole(msg)
    \/ \E e \in PageExceptions : OnPageError(e)
    \/ \E req \in FailedRequests : OnRequestFailed(req)
    \/ \E res \in Responses : OnResponse(res)

\* What a handler has no business with: where run() stands, the step being
\* executed and the outcomes so far, the session, the files, the verdict.
StepsUntouched ==
    UNCHANGED << inputs, pc, baseUrl, tolerate, browser, listeners, stepVars,
                 evalVars, files, exitCode >>

\* C16: wherever run() is suspended while the session is open (on a step's
\* page call, on a failure screenshot, on browser.close() after the last
\* step), each signal can be delivered and is then appended to the log of its
\* category; no run of a handler changes where run() stands, the step
\* outcomes or anything but its one log entry; no run with a signal logged is
\* rejected, and every step of it is attempted before the loop is left.
C16_SignalsRecordedWithoutEffect ==
    /\ ( browser = "open" /\ pc \in AwaitPoints /\ Logged < MaxSignals ) =>
          /\ \A msg \in ConsoleMessages : msg.type = "error" =>
                ENABLED ( OnConsole(msg)
                          /\ consoleErrors' = Append(consoleErrors,
                                   [ type |-> "error", text |-> msg.text ]) )
          /\ \A e \in PageExceptions :
                ENABLED ( OnPageError(e) /\ pageErrors' = Append(pageErrors, e) )
          /\ \A req \in FailedRequests :
                ENABLED ( OnRequestFailed(req)
                          /\ Len(requestFailures') = Len(requestFailures) + 1
                          /\ requestFailures'[Len(requestFailures')].url = req.url )
          /\ \A res \in Responses : res.status >= 400 =>
                ENABLED ( OnResponse(res)
                          /\ Len(httpErrors') = Len(httpErrors) + 1
                          /\ httpErrors'[Len(httpErrors')].status = res.status )
    /\ ~ENABLED ( HandlerRuns
                  /\ ~( StepsUntouched /\ Logged' \in { Logged, Logged + 1 } ) )
    /\ Logged > 0 => pc # "rejected"
    /\ ( Logged > 0 /\ AfterLoop ) => i = Len(test.steps)

\* C16 witness: a step failed, an HTTP error and an uncaught exception were
\* logged with nothing tolerated, the failure screenshot is being taken and
\* a further step is still to come.
C16_Witness_SignalsDuringFailure ==
    /\ pc = "awaitShot"
    /\ Len(httpErrors) = 1 /\ Len(pageErrors) = 1
    /\ tolerate = EmptyObj
    /\ i + 1 < Len(test.steps)

----------------------------------------------------------------------------
(* Raw logs are append-only *)

\* One step of a log: nothing, or one entry added at its end.
Appended(log, next) ==
    \/ next = log
    \/ Len(next) = Len(log) + 1 /\ IsPrefix(log, next)

\* C17: in every step of a run each of the four raw logs is left as it is or
\* gets one entry at its end; no entry is removed, moved or changed, so a
\* log lists its events in the order of their arrival; at most one log
\* changes in a step.
C17_RawLogsAppendOnly ==
    [][ /\ Appended(consoleErrors, consoleErrors')
        /\ Appended(pageErrors, pageErrors')
        /\ Appended(requestFailures, requestFailures')
        /\ Appended(httpErrors, httpErrors')
        /\ Logged' <= Logged + 1 ]_vars

\* C17 witness: two different console errors were logged, and the evaluation
\* that read them left the raw log as the handlers built it.
C17_Witness_TwoConsoleErrorsInOrder ==
    /\ pc = "write"
    /\ consoleErrors = << ConsoleError(TextOops), ConsoleError(TextApi) >>

----------------------------------------------------------------------------
(* Release of the browser session *)

\* C18 (as claimed): no run ends with the browser it launched still open,
\* whether run() resolved or was rejected.
C18_SessionReleased ==
    pc = "exited" => browser # "open"

----------------------------------------------------------------------------
(* The pre-flight check *)

\* Neither the command line nor the test definition gives a base URL.
NoBaseUrl == Falsy(ResolveBaseUrl(argv, test))

\* A run without a base URL never gets past the check of runner.ts:38.
StoppedAtPreflight ==
    /\ pc \in { "start", "rejected", "exited" }
    /\ browser = "none"
    /\ listeners = {}
    /\ calls = <<>>
    /\ stepErrors = <<>>
    /\ files = {}
    /\ pc = "exited" => exitCode = { 1 }

\* C19 (as claimed): without a base URL the run fails before the browser is
\* launched, a handler installed, a step executed or a file written; and a
\* run is rejected for no other reason.
C19_OnlyBaseUrlAborts ==
    /\ NoBaseUrl => StoppedAtPreflight
    /\ pc = "rejected" => NoBaseUrl

\* C19 (amended): without a base URL the run fails before the browser is
\* launched, a handler installed, a step executed or a file written; a run
\* can also be rejected by the launch of the browser or the creation of its
\* context and page failing; a run in which a step was executed, a step
\* failed or a signal was logged is not rejected.
C19_BaseUrlAbortsBeforeSession ==
    /\ NoBaseUrl => StoppedAtPreflight
    /\ pc = "rejected" =>
          /\ calls = <<>> /\ stepErrors = <<>> /\ Logged = 0
          /\ listeners = {} /\ files = {}
    /\ ( pc = "rejected" /\ ~NoBaseUrl ) => baseUrl = ResolveBaseUrl(argv, test)

\* C19 witness: a run without a base URL has ended with status 1, and no
\* browser, handler, page call or file exists.
C19_Witness_RejectedAtPreflight ==
    /\ pc = "exited"
    /\ NoBaseUrl
    /\ exitCode = { 1 }
    /\ browser = "none" /\ listeners = {} /\ calls = <<>> /\ files = {}

----------------------------------------------------------------------------
(* Resolution of the base URL *)

\* run() was rejected by the check of runner.ts:38-40.
RejectedForBaseUrl == pc \in { "rejected", "exited" } /\ Falsy(baseUrl)

\* C20 (as claimed): once resolved, the base URL is the --baseUrl value when
\* the command line has one and the test definition's baseUrl otherwise; and
\* a run for which either of the two is a non-empty URL is not rejected for a
\* missing base URL.
C20_EitherSourceSuffices ==
    /\ pc # "start" =>
          baseUrl = IF "baseUrl" \in DOMAIN argv THEN { argv.baseUrl }
                    ELSE Opt(test, "baseUrl")
    /\ ( ~Falsy(Opt(argv, "baseUrl")) \/ ~Falsy(Opt(test, "baseUrl")) )
          => ~RejectedForBaseUrl

----------------------------------------------------------------------------
(* Failure screenshots *)

\* The message of the error that sent step p (0-based) to its catch clause,
\* read off the calls of the step: the rejection of its last page call, or
\* the error thrown by the step itself (runner.ts:89, 119).
OriginalMessage(p) ==
    LET own  == CallsAt(p)
        last == IF Len(own) >= 2 THEN Len(own) - 1 ELSE 0
    IN  IF last > 0 /\ own[last].st = "rejected"
        THEN CallError(own[last].op)
        ELSE IF test.steps[p + 1].action = "navigate"
             THEN "navigate requires url or path"
             ELSE "Expected text"

\* 0-based positions of the steps whose failure screenshot was rejected.
ShotFailedPositions ==
    { c.pos : c \in { d \in Range(calls) : d.op = "errorScreenshot" /\ d.st = "rejected" } }

\* C21: for every step whose failure screenshot failed too, exactly one step
\* error is recorded, its message is that of the step's own failure and not
\* that of the screenshot, no screenshot file exists, the run is not
\* rejected and the loop has moved on to the next step.
C21_ScreenshotErrorSwallowed ==
    \A p \in ShotFailedPositions :
        /\ Cardinality({ j \in DOMAIN stepErrors : stepErrors[j].index = StepNumber(p) }) = 1
        /\ \A j \in DOMAIN stepErrors : stepErrors[j].index = StepNumber(p) =>
              /\ stepErrors[j].message = OriginalMessage(p)
              /\ stepErrors[j].message # CallError("errorScreenshot")
              /\ stepErrors[j].step = test.steps[p + 1]
        /\ ErrorShot(StepNumber(p)) \notin files
        /\ i > p
        /\ pc # "rejected"
        /\ AfterLoop => i = Len(test.steps)

\* C21 witness: the click of the second step was rejected, the failure
\* screenshot was rejected too, and the third step's call has been issued.
C21_Witness_BothFailedThenNext ==
    /\ 1 \in ShotFailedPositions
    /\ test.steps[2].action = "click"
    /\ Len(stepErrors) = 1
    /\ stepErrors[1].message = "click: Timeout exceeded"
    /\ \E k \in DOMAIN calls : calls[k].pos = 2

----------------------------------------------------------------------------
(* Screenshot steps *)

\* The step errors of the steps that are not screenshot steps.
NonScreenshotErrors ==
    LET other(e) == e.step.action # "screenshot" IN SelectSeq(stepErrors, other)

\* C22 (as claimed): no step error is ever recorded for a screenshot step,
\* whether its capture succeeded or failed, and the verdict is the one
\* computed from the step errors of the other steps.
C22_ScreenshotNeverAffectsVerdict ==
    /\ \A j \in DOMAIN stepErrors : stepErrors[j].step.action # "screenshot"
    /\ Evaluated =>
          success = Success(NonScreenshotErrors, pageOk, consoleOk, httpOk, reqOk)

----------------------------------------------------------------------------
(* The summary *)

\* The summary run() builds at runner.ts:181-199 from the current inputs and
\* step errors, had the raw logs been ce, pe, rf and he.
SummaryFor(ce, pe, rf, he) ==
    LET e == Evaluation(argv, tolerate, stepErrors, ce, pe, rf, he)
    IN  Summary(test.name, CHOOSE b \in baseUrl : TRUE, e.success, stepErrors,
                e.filteredPageErrors, e.filteredConsoleErrors,
                e.filteredHttpErrors, e.filteredRequestFailures)

\* The log without its k-th entry.
Without(log, k) == SubSeq(log, 1, k - 1) \o SubSeq(log, k + 1, Len(log))

\* C23 (as claimed): every raw signal is visible in the summary, so the raw
\* count of each category can be read back from it: a run that logged one
\* signal less in a category, everything else equal, has another summary.
C23_RawCountsInSummary ==
    Evaluated =>
        /\ summary = { SummaryFor(consoleErrors, pageErrors, requestFailures, httpErrors) }
        /\ \A k \in DOMAIN httpErrors :
              SummaryFor(consoleErrors, pageErrors, requestFailures, Without(httpErrors, k))
                  \notin summary
        /\ \A k \in DOMAIN consoleErrors :
              SummaryFor(Without(consoleErrors, k), pageErrors, requestFailures, httpErrors)
                  \notin summary
        /\ \A k \in DOMAIN pageErrors :
              SummaryFor(consoleErrors, Without(pageErrors, k), requestFailures, httpErrors)
                  \notin summary
        /\ \A k \in DOMAIN requestFailures :
              SummaryFor(consoleErrors, pageErrors, Without(requestFailures, k), httpErrors)
                  \notin summary

----------------------------------------------------------------------------
(* Verdict and summary counts *)

Categories == { "pageErrors", "consoleErrors", "httpErrors", "requestFailures" }

\* The global flag of a category, runner.ts:16-19.
IgnoreFlag(cat) ==
    CASE cat = "pageErrors"      -> "ignorePageErrors"
      [] cat = "consoleErrors"   -> "ignoreConsoleErrors"
      [] cat = "httpErrors"      -> "ignoreHttpErrors"
      [] cat = "requestFailures" -> "ignoreRequestFailures"

\* The category is switched off by its toggle or by its global flag.
Tolerated(cat) == argv[IgnoreFlag(cat)] \/ HasTrue(tolerate, cat)

----------------------------------------------------------------------------
(* When the summary is built *)

\* C25: the filtered logs, the flags, the verdict and the summary are
\* assigned in one step only, taken when the browser is closed, every step
\* has been executed, no page call is pending and no summary exists yet; the
\* summary built is the one of the logs and step errors as they are then;
\* once a summary exists, no raw log, step error, filtered log, flag or
\* summary changes any more.
C25_SummaryBuiltOnceAfterClose ==
    [][ /\ evalVars' # evalVars =>
              /\ pc = "evaluate"
              /\ browser = "closed"
              /\ i = Len(test.steps)
              /\ Pending = {}
              /\ summary = {}
              /\ ( summary = { SummaryFor(consoleErrors, pageErrors,
                                          requestFailures, httpErrors) } )'
              /\ UNCHANGED << rawLogs, stepErrors >>
        /\ summary # {} => UNCHANGED << rawLogs, stepErrors, evalVars >> ]_vars

\* C25 witness: a run in which a step failed and two signals were logged has
\* ended, and its summary counts the step error and the signals.
C25_Witness_SummaryCountsEverything ==
    /\ pc = "exited"
    /\ Len(stepErrors) = 1 /\ Len(httpErrors) = 1 /\ Len(requestFailures) = 1
    /\ \E s \in summary :
          /\ s.counts.stepErrors = 1
          /\ s.counts.httpErrors = 1
          /\ s.counts.requestFailures = 1

----------------------------------------------------------------------------
(* expectText *)

\* doStep is at runner.ts:118 of an expectText step: the selector became
\* visible and page.textContent has resolved.
AtExpectTextCheck ==
    /\ pc = "doStep"
    /\ CurrentStep.action = "expectText"
    /\ sub = Len(PageCalls(CurrentStep))

\* C26 (as claimed): with the element visible and its text read, the step
\* fails exactly when the expected text is not a substring of the rendered
\* text, and succeeds exactly when it is, the empty expected text and the
\* empty rendered text included.
C26_ExpectTextFailsIffAbsent ==
    AtExpectTextCheck =>
        \A x \in content :
            /\ ( ENABLED ExpectTextMismatch ) <=> ~Includes(x, CurrentStep.text)
            /\ ( ENABLED StepBreak ) <=> Includes(x, CurrentStep.text)

----------------------------------------------------------------------------
(* navigate *)

\* doStep is at runner.ts:88 of a navigate step.
AtNavigate ==
    /\ pc = "doStep"
    /\ CurrentStep.action = "navigate"
    /\ sub = 0

\* C27 (as claimed): every page.goto was given the step's url when the step
\* has one, and otherwise the step's path resolved against the base URL; a
\* navigate step throws "navigate requires url or path" only when it has
\* neither url nor path and there is no base URL.
C27_NavigateTarget ==
    /\ \A k \in DOMAIN calls : calls[k].op = "goto" =>
          LET step == test.steps[calls[k].pos + 1]
          IN  calls[k].arg = IF "url" \in DOMAIN step THEN { step.url }
                             ELSE AbsUrl(Opt(step, "path"), baseUrl)
    /\ AtNavigate =>
          ( ( ENABLED NavigateNoTarget )
              => ( /\ "url" \notin DOMAIN CurrentStep
                   /\ "path" \notin DOMAIN CurrentStep
                   /\ Falsy(baseUrl) ) )

----------------------------------------------------------------------------
(* type *)

\* The page calls of step p (0-based) without its failure screenshot.
ActionCallsAt(p) ==
    LET own(c) == c.pos = p /\ c.op # "errorScreenshot" IN SelectSeq(calls, own)

\* C28: the calls of a type step are a prefix of fill (clearing the field),
\* type, and press when pressEnter is true; a rejected call is the last
\* call of its step; once the step is over, either a call was rejected and
\* exactly one step error is recorded for it, or all its calls were issued
\* and resolved and no step error is recorded.
C28_TypeSubActionsInOrder ==
    \A p \in Positions : test.steps[p + 1].action = "type" =>
        LET step == test.steps[p + 1]
            plan == IF "pressEnter" \in DOMAIN step /\ step.pressEnter
                    THEN << "fill", "type", "press" >>
                    ELSE << "fill", "type" >>
            own  == ActionCallsAt(p)
            recorded == { j \in DOMAIN stepErrors : stepErrors[j].index = p + 1 }
        IN  /\ IsPrefix(OpsOf(own), plan)
            /\ \A k \in DOMAIN own : own[k].st = "rejected" => k = Len(own)
            /\ ( i > p /\ \E k \in DOMAIN own : own[k].st = "rejected" )
                  => Cardinality(recorded) = 1
            /\ ( i > p /\ \A k \in DOMAIN own : own[k].st # "rejected" )
                  => ( OpsOf(own) = plan /\ recorded = {} )

\* C28 witness: the type call of a type step with pressEnter was rejected
\* after the field was cleared, Enter was never pressed, one step error is
\* recorded and the next step has started.
C28_Witness_TypeRejectedNoPress ==
    /\ Len(test.steps) >= 2
    /\ test.steps[2] = TypeEnter
    /\ i = 2
    /\ OpsOf(ActionCallsAt(1)) = << "fill", "type" >>
    /\ ActionCallsAt(1)[2].st = "rejected"
    /\ Cardinality({ j \in DOMAIN stepErrors : stepErrors[j].index = 2 }) = 1

----------------------------------------------------------------------------
(* What the handlers record *)

\* An event can be delivered: the session is open and run() is suspended.
Listening == browser = "open" /\ pc \in AwaitPoints /\ Logged < MaxSignals

\* C29: while events can be delivered, a console message of type error is
\* appended to the console log and to no other, a console message of another
\* type changes no log; a response with status 400 or more is appended to
\* the HTTP log and to no other, a response with a lower status (399)
\* changes no log; an uncaught exception is appended to the page-error log
\* and a failed request to the request-failure log, each to no other.
C29_HandlersRecordExactly ==
    Listening =>
        /\ \A msg \in ConsoleMessages :
              IF msg.type = "error"
              THEN /\ ENABLED OnConsole(msg)
                   /\ ~ENABLED ( OnConsole(msg)
                                 /\ ~( /\ consoleErrors' = Append(consoleErrors,
                                              [ type |-> "error", text |-> msg.text ])
                                       /\ UNCHANGED << pageErrors, requestFailures, httpErrors >> ) )
              ELSE ~ENABLED ( OnConsole(msg) /\ rawLogs' # rawLogs )
        /\ \A res \in Responses :
              IF res.status >= 400
              THEN /\ ENABLED OnResponse(res)
                   /\ ~ENABLED ( OnResponse(res)
                                 /\ ~( /\ Len(httpErrors') = Len(httpErrors) + 1
                                       /\ IsPrefix(httpErrors, httpErrors')
                                       /\ httpErrors'[Len(httpErrors')].url = res.url
                                       /\ httpErrors'[Len(httpErrors')].status = res.status
                                       /\ UNCHANGED << consoleErrors, pageErrors, requestFailures >> ) )
              ELSE ~ENABLED ( OnResponse(res) /\ rawLogs' # rawLogs )
        /\ \A e \in PageExceptions :
              /\ ENABLED OnPageError(e)
              /\ ~ENABLED ( OnPageError(e)
                            /\ ~( /\ pageErrors' = Append(pageErrors, e)
                                  /\ UNCHANGED << consoleErrors, requestFailures, httpErrors >> ) )
        /\ \A req \in FailedRequests :
              /\ ENABLED OnRequestFailed(req)
              /\ ~ENABLED ( OnRequestFailed(req)
                            /\ ~( /\ Len(requestFailures') = Len(requestFailures) + 1
                                  /\ IsPrefix(requestFailures, requestFailures')
                                  /\ requestFailures'[Len(requestFailures')].url = req.url
                                  /\ requestFailures'[Len(requestFailures')].method = req.method
                                  /\ UNCHANGED << consoleErrors, pageErrors, httpErrors >> ) )

\* C29 witness: a response with status 400 and a console error were logged,
\* one entry each, and events can still arrive, among them the response
\* with status 399 and the console warning.
C29_Witness_BoundaryStatusLogged ==
    /\ browser = "open" /\ pc = "await"
    /\ Len(httpErrors) = 1 /\ httpErrors[1].status = 400
    /\ Len(consoleErrors) = 1 /\ consoleErrors[1].type = "error"
    /\ pageErrors = <<>> /\ requestFailures = <<>>
    /\ \E res \in Responses : res.status = 399
    /\ \E msg \in ConsoleMessages : msg.type = "warning"

----------------------------------------------------------------------------
(* Toggles and ignore flags leave the effective logs alone *)

\* The tolerance block with toggle cat removed (v = {}) or set to the value
\* in v.
SetToggle(tol, cat, v) ==
    WithOpt([ f \in DOMAIN tol \ { cat } |-> tol[f] ], cat, v)

\* The same command line and tolerance block with one ignore flag or one
\* toggle changed (the allowlists are kept).
Retoggled ==
    { << [ argv EXCEPT ![f] = ~argv[f] ], tolerate >> : f \in FlagNames }
    \cup { << argv, SetToggle(tolerate, cat, v) >> :
               cat \in ToggleNames, v \in { {}, { TRUE }, { FALSE } } }

\* What the summary says about the logs: its counts and its five lists.
Reported(s) ==
    << s.counts, s.stepErrors, s.pageErrors, s.consoleErrors, s.httpErrors,
       s.requestFailures >>

----------------------------------------------------------------------------
(* Independence of the interleaving of signals *)

\* The effective log of a category, read from the raw log of that category
\* and the tolerance block alone.
EffectiveOf(cat) ==
    CASE cat = "httpErrors" ->
             SelectSeq(httpErrors, LAMBDA h : ~( StatusAllowed(h) \/ UrlAllowed(h) ))
      [] cat = "consoleErrors" ->
             SelectSeq(consoleErrors, LAMBDA c : ~ConsoleAllowed(c))
      [] cat = "pageErrors" -> pageErrors
      [] cat = "requestFailures" -> requestFailures

\* The verdict read from the set of failed steps, the four raw logs, the
\* tolerance block and the ignore flags alone.
VerdictOf ==
    /\ FailedPositions = {}
    /\ \A cat \in Categories : Tolerated(cat) \/ EffectiveOf(cat) = <<>>

\* C31: after the evaluation the four effective logs and the verdict are the
\* values of fixed functions of the raw log of each category, the set of
\* failed steps, the tolerance block and the ignore flags; the order in which
\* signals of different categories arrived, and the steps during which they
\* arrived, are no argument of these functions, so runs that differ only in
\* them end with the same effective logs and the same verdict.
C31_InterleavingIrrelevant ==
    Evaluated =>
        /\ filteredHttpErrors = EffectiveOf("httpErrors")
        /\ filteredConsoleErrors = EffectiveOf("consoleErrors")
        /\ filteredPageErrors = EffectiveOf("pageErrors")
        /\ filteredRequestFailures = EffectiveOf("requestFailures")
        /\ success <=> VerdictOf
        /\ Len(arrivals) = Logged

\* C31 witness: an evaluated run of several steps in which a console error
\* was recorded before an HTTP error (the reverse of the order in which the
\* filters read the logs), and in which both are kept by the filters.
C31_Witness_ConsoleBeforeResponse ==
    /\ Evaluated
    /\ arrivals = << "console", "response" >>
    /\ Len(filteredConsoleErrors) = 1
    /\ Len(filteredHttpErrors) = 1
    /\ Len(test.steps) > 1

----------------------------------------------------------------------------
(* The missing-target branch of navigate *)

\* C32 (as claimed): a navigate step that has neither url nor path is given
\* the base URL as its target and does not throw; and in no run does a
\* navigate step throw "navigate requires url or path": the throw is never
\* enabled and no step error carries that message.
C32_MissingTargetUnreachable ==
    /\ \A k \in DOMAIN calls : calls[k].op = "goto" =>
          LET step == test.steps[calls[k].pos + 1]
          IN  ( "url" \notin DOMAIN step /\ "path" \notin DOMAIN step )
                  => calls[k].arg = baseUrl
    /\ ~ENABLED NavigateNoTarget
    /\ \A k \in DOMAIN stepErrors :
          stepErrors[k].message # "navigate requires url or path"

----------------------------------------------------------------------------
(* The screenshot path of a step error *)

\* C33: every step-error record has a screenshot field holding the path
\* error-step-<index>.png of its step, whether or not the capture succeeded:
\* for each step whose failure screenshot was rejected the record is there
\* with the path, and no file of that path was written.
C33_ScreenshotPathAlwaysRecorded ==
    /\ \A k \in DOMAIN stepErrors :
          /\ "screenshot" \in DOMAIN stepErrors[k]
          /\ stepErrors[k].screenshot = ErrorShot(stepErrors[k].index)
    /\ \A p \in ShotFailedPositions :
          /\ ErrorShot(StepNumber(p)) \notin files
          /\ \E k \in DOMAIN stepErrors :
                /\ stepErrors[k].index = StepNumber(p)
                /\ "screenshot" \in DOMAIN stepErrors[k]
                /\ stepErrors[k].screenshot = ErrorShot(StepNumber(p))

\* C33 witness: the reports were written for a run with two step errors; the
\* screenshot of the first was captured and that of the second was not, and
\* the summary lists both records with their paths.
C33_Witness_PathWithoutFile ==
    /\ pc = "resolved"
    /\ Len(stepErrors) = 2
    /\ stepErrors[1].screenshot \in files
    /\ stepErrors[2].screenshot \notin files
    /\ \E x \in summary : x.stepErrors = stepErrors

----------------------------------------------------------------------------
(* The builder UI, ui/web-builder/src/WebTestBuilderUI.tsx *)

\* The runner's variables; the builder UI is another program and leaves them.
runVars == << inputs, pc, baseUrl, tolerate, browser, listeners, arrivals, rawLogs,
              stepVars, evalVars, files, exitCode >>

MaxSteps == 2

\* The generated session id is s1; the id field is edited between s1 and s2.
SessionIds == { "s1", "s2" }
Selectors  == { "#a", "#b" }
Texts      == { "x", "xy" }

\* What the bookmarklet posts (WebTestBuilderUI.tsx:42, post calls), and a
\* key event other than Enter.
Payloads ==
    { [ kind |-> "click", selector |-> sel ] : sel \in Selectors }
    \cup { [ kind |-> "type", selector |-> sel, text |-> t ] : sel \in Selectors, t \in Texts }
    \cup { [ kind |-> "key", key |-> k ] : k \in { "Enter", "Tab" } }
    \cup { [ kind |-> "stopped" ] }

\* ev.data of the window messages: none, an object of another sender, and
\* objects with type, sessionId and payload.
Messages ==
    { {} }
    \cup { { [ source |-> "devtools" ] } }
    \cup { { [ type |-> "other", sessionId |-> sid, payload |-> [ kind |-> "click", selector |-> "#a" ] ] } :
              sid \in SessionIds }
    \cup { { [ type |-> "wt-recorder", sessionId |-> sid, payload |-> p ] } :
              sid \in SessionIds, p \in Payloads }

\* JSON.stringify(payload): the text as its keys and values in insertion order.
Stringify(payload) ==
    CASE payload.kind = "click" -> << "kind", "click", "selector", payload.selector >>
      [] payload.kind = "type"  -> << "kind", "type", "selector", payload.selector,
                                      "text", payload.text >>
      [] payload.kind = "key"   -> << "kind", "key", "key", payload.key >>
      [] OTHER                  -> << "kind", payload.kind >>

\* A type event merged into the last type step whatever its selector.
RecorderUpdaterMergesAnySelector(prev, payload) ==
    LET steps == prev.steps
        n     == Len(steps)
        new   == CASE payload.kind = "click" ->
                          Append(steps, [ action |-> "click", selector |-> payload.selector ])
                   [] payload.kind = "type" ->
                          IF n > 0 /\ steps[n].action = "type"
                          THEN [ steps EXCEPT ![n] = [ @ EXCEPT !.text = payload.text ] ]
                          ELSE Append(steps, [ action |-> "type", selector |-> payload.selector,
                                               text |-> payload.text ])
                   [] payload.kind = "key" /\ payload.key = "Enter" ->
                          IF n > 0 /\ steps[n].action = "type"
                          THEN [ steps EXCEPT ![n] = WithOpt(@, "pressEnter", { TRUE }) ]
                          ELSE steps
                   [] OTHER -> steps
    IN  [ prev EXCEPT !.steps = new ]

\* WebTestBuilderUI.tsx:86-106, the updater given to setTest (last is
\* undefined when there is no step).
RecorderUpdater(prev, payload) ==
    LET steps == prev.steps
        n     == Len(steps)
        new   == CASE payload.kind = "click" ->
                          Append(steps, [ action |-> "click", selector |-> payload.selector ])
                   [] payload.kind = "type" ->
                          IF n > 0 /\ steps[n].action = "type"
                                   /\ steps[n].selector = payload.selector
                          THEN [ steps EXCEPT ![n] = [ @ EXCEPT !.text = payload.text ] ]
                          ELSE Append(steps, [ action |-> "type", selector |-> payload.selector,
                                               text |-> payload.text ])
                   [] payload.kind = "key" /\ payload.key = "Enter" ->
                          IF n > 0 /\ steps[n].action = "type"
                          THEN [ steps EXCEPT ![n] = WithOpt(@, "pressEnter", { TRUE }) ]
                          ELSE steps
                   [] OTHER -> steps
    IN  [ prev EXCEPT !.steps = new ]

\* WebTestBuilderUI.tsx:82: the test that lets a message through, made with
\* the session id sid.
Gated(d, sid) ==
    \E m \in d : Opt(m, "type") = { "wt-recorder" } /\ Opt(m, "sessionId") = { sid }

\* WebTestBuilderUI.tsx:80-107: onMsg handles the message event with data d.
\* (In part_001:136 it also sets a recording flag that nothing reads.)
OnMsg(d) ==
    /\ IF Gated(d, subscribedId)
       THEN LET payload == (CHOOSE m \in d : TRUE).payload
            IN  /\ Len(RecorderUpdater(builderTest, payload).steps) <= MaxSteps
                /\ lastEvent' = Stringify(payload)
                /\ builderTest' = RecorderUpdater(builderTest, payload)
       ELSE UNCHANGED << builderTest, lastEvent >>
    /\ lastMsg' = << { m.sessionId : m \in { x \in d : Opt(x, "type") = { "wt-recorder" } } } >>
    /\ UNCHANGED << runVars, sessionId, subscribedId >>

\* The session id field edited with the listener left as it was installed
\* (an effect without sessionId among its dependencies).
EditSessionIdKeepsListener(v) ==
    /\ v # sessionId
    /\ sessionId' = v
    /\ UNCHANGED << runVars, subscribedId, builderTest, lastEvent, lastMsg >>

\* WebTestBuilderUI.tsx:206 and 74-110: the session id field is edited; the
\* render that follows removes the listener and installs one made with the
\* new id before the next message is handled.
EditSessionId(v) ==
    /\ v # sessionId
    /\ sessionId' = v
    /\ subscribedId' = v
    /\ UNCHANGED << runVars, builderTest, lastEvent, lastMsg >>

\* The steps the three buttons add (WebTestBuilderUI.tsx:174-176).
ButtonSteps ==
    { [ action |-> "waitForSelector", selector |-> "[data-testid=\"...\"]", timeoutMs |-> 10000 ],
      [ action |-> "expectVisible", selector |-> "text=/success/i", timeoutMs |-> 8000 ],
      [ action |-> "screenshot", name |-> "after" ] }

\* WebTestBuilderUI.tsx:115
AddStep(s) ==
    /\ Len(builderTest.steps) < MaxSteps
    /\ builderTest' = [ builderTest EXCEPT !.steps = Append(@, s) ]
    /\ UNCHANGED << runVars, sessionId, subscribedId, lastEvent, lastMsg >>

\* WebTestBuilderUI.tsx:116 (k counts from 0)
RemoveStep(k) ==
    /\ k \in 0 .. Len(builderTest.steps) - 1
    /\ builderTest' = [ builderTest EXCEPT !.steps =
                          SubSeq(@, 1, k) \o SubSeq(@, k + 2, Len(@)) ]
    /\ UNCHANGED << runVars, sessionId, subscribedId, lastEvent, lastMsg >>

\* WebTestBuilderUI.tsx:117-125 (k counts from 0)
MoveStep(k, dir) ==
    /\ k \in 0 .. Len(builderTest.steps) - 1
    /\ LET j == k + dir
       IN  builderTest' =
             IF j < 0 \/ j >= Len(builderTest.steps) THEN builderTest
             ELSE [ builderTest EXCEPT !.steps =
                      [ @ EXCEPT ![k + 1] = builderTest.steps[j + 1],
                                 ![j + 1] = builderTest.steps[k + 1] ] ]
    /\ UNCHANGED << runVars, sessionId, subscribedId, lastEvent, lastMsg >>

\* The builder UI is mounted and no run of the runner is going on.
InitUI == InitWith(ArgvCli, TestDef(<< Click >>, {}, {}))

NextUI ==
    \/ \E d \in Messages : OnMsg(d)
    \/ \E v \in SessionIds : EditSessionId(v)
    \/ \E s \in ButtonSteps : AddStep(s)
    \/ \E k \in 0 .. MaxSteps : RemoveStep(k)
    \/ \E k \in 0 .. MaxSteps, dir \in { -1, 1 } : MoveStep(k, dir)

SpecUI == InitUI /\ [][NextUI]_vars

----------------------------------------------------------------------------
(* The session gate of the builder UI *)

\* The payload of a message that carries one.
PayloadOf(d) == (CHOOSE m \in d : TRUE).payload

\* C34: the installed listener is the one made with the current session id;
\* onMsg changes the test definition or the last-event display only for a
\* message whose type is "wt-recorder" and whose sessionId is the current
\* session id (the edited one, once the field was edited): a message without
\* data, of another sender or type, or with another or the former session id
\* leaves both as they are; a message that passes the gate is shown as the
\* last event.
C34_OnlyCurrentSessionAccepted ==
    /\ subscribedId = sessionId
    /\ \A d \in Messages :
          IF Gated(d, sessionId)
          THEN ~ENABLED ( OnMsg(d) /\ lastEvent' # Stringify(PayloadOf(d)) )
          ELSE ~ENABLED ( OnMsg(d) /\ << builderTest, lastEvent >>' # << builderTest, lastEvent >> )

\* C34 witness: the session id is the edited one, s2, and the last message
\* handled was a recorder message carrying the former id s1; nothing was ever
\* shown as last event and the steps are the initial ones, so the message was
\* handled after the edit and was ignored.
C34_Witness_StaleIdIgnored ==
    /\ sessionId = "s2"
    /\ lastMsg = << { "s1" } >>
    /\ lastEvent = <<>>
    /\ builderTest.steps = << [ action |-> "navigate", path |-> "/" ] >>

----------------------------------------------------------------------------
(* The effect of a recorder event on the steps *)

\* What handling payload p may do to the test definition: old and new are
\* the definitions before and after.
RecordedAs(old, new, p) ==
    LET n    == Len(old.steps)
        last == IF n = 0 THEN {} ELSE { old.steps[n] }
    IN  /\ new.name = old.name /\ new.baseUrl = old.baseUrl
        /\ new.description = old.description
        /\ Len(new.steps) \in { n, n + 1 }
        /\ \A k \in 1 .. n : ( k < n \/ Len(new.steps) = n + 1 ) => new.steps[k] = old.steps[k]
        /\ p.kind = "click" =>
              new.steps = Append(old.steps, [ action |-> "click", selector |-> p.selector ])
        /\ p.kind = "type" =>
              IF \E l \in last : l.action = "type" /\ l.selector = p.selector
              THEN /\ Len(new.steps) = n
                   /\ new.steps[n].action = "type"
                   /\ new.steps[n].selector = p.selector
                   /\ new.steps[n].text = p.text
                   /\ Opt(new.steps[n], "pressEnter") = Opt(old.steps[n], "pressEnter")
              ELSE new.steps = Append(old.steps, [ action |-> "type", selector |-> p.selector,
                                                   text |-> p.text ])
        /\ ( p.kind = "key" /\ p.key = "Enter" ) =>
              IF \E l \in last : l.action = "type"
              THEN /\ Len(new.steps) = n
                   /\ new.steps[n].action = "type"
                   /\ new.steps[n].selector = old.steps[n].selector
                   /\ new.steps[n].text = old.steps[n].text
                   /\ Opt(new.steps[n], "pressEnter") = { TRUE }
              ELSE new.steps = old.steps
        /\ ( p.kind = "key" /\ p.key # "Enter" ) => new.steps = old.steps
        /\ p.kind = "stopped" => new.steps = old.steps

\* C35: handling a recorder event that passed the gate changes the number of
\* steps by at most one and leaves every step but the last as it was: a
\* click appends one click step; a type event replaces the text of the last
\* step when that is a type step with the same selector and otherwise appends
\* one type step; an Enter key sets pressEnter on the last step when that is
\* a type step and otherwise changes nothing; any other key and a stopped
\* event change no step.
C35_RecorderEventEffect ==
    \A d \in Messages : Gated(d, sessionId) =>
        ~ENABLED ( OnMsg(d) /\ ~RecordedAs(builderTest, builderTest', PayloadOf(d)) )

\* C35 witness: the last event was a type event for #a with text xy, and the
\* last step is a type step for #a with that text and with pressEnter set:
\* the event was merged into a type step on which Enter had been recorded.
C35_Witness_TypeMergedAfterEnter ==
    /\ lastEvent = Stringify([ kind |-> "type", selector |-> "#a", text |-> "xy" ])
    /\ builderTest.steps = << [ action |-> "navigate", path |-> "/" ],
                              [ action |-> "type", selector |-> "#a", text |-> "xy",
                                pressEnter |-> TRUE ] >>

====
